---- MODULE Spec2Model ----
(***************************************************************************)
(* A model of the jsshell-extended shell kernel: the virtual filesystem    *)
(* (fs/virtualFileSystem.js, fs/pathUtils.js), the built-in command        *)
(* handlers that mutate it (programs/*.js), the command-line tokenizer     *)
(* (utils/commandLine.js), the .jsh command-script runner, the main loop   *)
(* of the interactive shell (jsShellHolder.js) and its key handler         *)
(* (jsShellExtended.js, jsShell.js).                                       *)
(*                                                                         *)
(* Specifications: Spec (the store under the handlers), SpecTok (the       *)
(* tokenizer and quoteArgIfNeeded), SpecJsh (command scripts), SpecLoad    *)
(* (construction from a persisted record), SpecPath (path resolution),     *)
(* SpecShell (typed lines: history, aliases, handlers, PATH fallback),     *)
(* SpecKeys (the keys of one prompt: history navigation, completion) and   *)
(* SpecTab (completion of arbitrary typed text, before and after a script  *)
(* on PATH is removed).                                                    *)
(*                                                                         *)
(* JavaScript strings are modelled as sequences of one-character strings,  *)
(* so that split, join, startsWith, slice and the tokenizer are computed   *)
(* character by character as the code computes them.                       *)
(***************************************************************************)
EXTENDS Integers, Sequences, FiniteSets, TLC

VARIABLES
  root,       \* vfs._state.root: the folder tree
  cwdParts,   \* vfs._state.cwdParts
  storage,    \* localStorage item STORAGE_KEYS.VFS
  pc,         \* position of the shell: "prompt", "result", "jsh", "exited", and the
              \* positions of the function runs: "tokenized", "quoted", "resolved",
              \* "boot", "constructed"
  last,       \* what the last handler call was and what it reported
  jsh,        \* the running .jsh script (lines, position, lines dispatched)
  tokIn,      \* tokenizer input line
  tokOut,     \* tokenizer result for tokIn
  env,        \* the shell's env: PATH (folder paths) and ALIAS (name -> expansion)
  commandHistory,  \* the input lines the main loop remembers
  uiState,    \* the state object the main loop shares with the key handler
  terminal,   \* the prompt's input field and what the key handler printed
  commandsFromPath  \* the script names start-up added to the command names

vars == <<root, cwdParts, storage, pc, last, jsh, tokIn, tokOut, env, commandHistory,
          uiState, terminal, commandsFromPath>>

(***************************************************************************)
(* Bounds of the model.                                                    *)
(***************************************************************************)
MaxNodes == 2     \* files plus folders below the root
MaxLen == 4       \* length of a tokenizer input line

(***************************************************************************)
(* Strings.                                                                *)
(***************************************************************************)
Empty == <<>>
Slash == <<"/">>
Dot == <<".">>
DotDot == <<".", ".">>
\* the JavaScript value undefined, where it ends up stored as a node name
Undefined == <<"undefined">>

\* the one element of a singleton set; {F(x) : x \in {e}} computes e once and
\* then F on its value, as a const declaration of the code does
Only(S) == CHOOSE x \in S : TRUE

StartsWith(s, p) == Len(s) >= Len(p) /\ SubSeq(s, 1, Len(p)) = p
EndsWith(s, p) == Len(s) >= Len(p) /\ SubSeq(s, Len(s) - Len(p) + 1, Len(s)) = p
\* String.prototype.slice(n) for 0 <= n
SliceFrom(s, n) == SubSeq(s, n + 1, Len(s))
Includes(s, ch) == \E i \in 1..Len(s) : s[i] = ch

RECURSIVE SplitAcc(_, _, _, _)
SplitAcc(s, sep, i, cur) ==
  IF i > Len(s) THEN <<cur>>
  ELSE IF s[i] = sep THEN <<cur>> \o SplitAcc(s, sep, i + 1, <<>>)
  ELSE SplitAcc(s, sep, i + 1, Append(cur, s[i]))

\* String.prototype.split(sep) for a one-character separator
Split(s, sep) == SplitAcc(s, sep, 1, <<>>)

RECURSIVE Join(_, _)
\* Array.prototype.join(sep)
Join(parts, sep) ==
  IF parts = <<>> THEN <<>>
  ELSE IF Len(parts) = 1 THEN parts[1]
  ELSE parts[1] \o sep \o Join(Tail(parts), sep)

Lower(ch) ==
  CASE ch = "M" -> "m" [] ch = "K" -> "k" [] ch = "D" -> "d" [] ch = "I" -> "i"
    [] ch = "R" -> "r" [] ch = "C" -> "c" [] ch = "V" -> "v" [] ch = "T" -> "t"
    [] ch = "L" -> "l" [] ch = "S" -> "s" [] ch = "O" -> "o" [] ch = "N" -> "n"
    [] ch = "F" -> "f" [] ch = "G" -> "g" [] ch = "B" -> "b" [] ch = "A" -> "a"
    [] ch = "U" -> "u" [] ch = "P" -> "p" [] ch = "E" -> "e" [] ch = "X" -> "x"
    [] OTHER -> ch

\* String.prototype.toLowerCase on the letters the model's command lines use
ToLowerCase(s) == [i \in 1..Len(s) |-> Lower(s[i])]

(***************************************************************************)
(* fs/pathUtils.js                                                         *)
(***************************************************************************)
RECURSIVE ApplyParts(_, _), ApplyPartsKeepDotDot(_, _)
\* mutant of ApplyParts: a '..' met with nothing accumulated is kept as a segment
ApplyPartsKeepDotDot(result, rawParts) ==
  IF rawParts = <<>> THEN result
  ELSE LET part == Head(rawParts) IN
       IF part = DotDot /\ Len(result) > 0
       THEN ApplyParts(SubSeq(result, 1, Len(result) - 1), Tail(rawParts))
       ELSE ApplyParts(Append(result, part), Tail(rawParts))

\* the for loop of normalizePathParts
ApplyParts(result, rawParts) ==
  IF rawParts = <<>> THEN result
  ELSE LET part == Head(rawParts) IN
       IF part = DotDot
       THEN ApplyParts(IF Len(result) > 0 THEN SubSeq(result, 1, Len(result) - 1)
                       ELSE result, Tail(rawParts))
       ELSE ApplyParts(Append(result, part), Tail(rawParts))

normalizePathParts(base, path) ==
  IF path = Empty \/ path = Dot THEN base
  ELSE LET isAbsolute == path[1] = "/"
           rawParts == SelectSeq(Split(path, "/"), LAMBDA p : p # Empty /\ p # Dot)
       IN ApplyParts(IF isAbsolute THEN <<>> ELSE base, rawParts)

normalizePathFromCwd(cwdPath, path) ==
  LET parts == IF cwdPath = Empty \/ cwdPath = Slash THEN <<>>
               ELSE SelectSeq(Split(cwdPath, "/"), LAMBDA p : p # Empty)
  IN Slash \o Join(normalizePathParts(parts, path), Slash)

(***************************************************************************)
(* fs/virtualFileSystem.js: the node tree.                                 *)
(* A folder is [type, name, folders, files]; a file is [type, name,        *)
(* content]; folders and files are sequences, as the arrays of the code.   *)
(***************************************************************************)
NewFolder(name) == [type |-> "folder", name |-> name, folders |-> <<>>, files |-> <<>>]
NewFile(name, content) == [type |-> "file", name |-> name, content |-> content]

createDefaultState == [root |-> NewFolder(Slash), cwdParts |-> <<>>]

\* Array.prototype.findIndex((f) => f.name === name), 1-based, 0 for -1
IndexOfName(nodes, name) ==
  LET hits == {i \in 1..Len(nodes) : nodes[i].name = name} IN
  IF hits = {} THEN 0 ELSE CHOOSE i \in hits : \A j \in hits : i <= j

RemoveAt(seq, i) == SubSeq(seq, 1, i - 1) \o SubSeq(seq, i + 1, Len(seq))

RECURSIVE resolveFolder(_, _)
\* _resolveFolder: found = FALSE stands for the null result
resolveFolder(current, parts) ==
  IF parts = <<>> THEN [found |-> TRUE, node |-> current]
  ELSE LET i == IndexOfName(current.folders, Head(parts)) IN
       IF i = 0 THEN [found |-> FALSE, node |-> NewFolder(Empty)]
       ELSE resolveFolder(current.folders[i], Tail(parts))

RECURSIVE ReplaceFolder(_, _, _)
\* the tree after the folder object that resolveFolder(current, parts) returns
\* was mutated in place into new
ReplaceFolder(current, parts, new) ==
  IF parts = <<>> THEN new
  ELSE LET i == IndexOfName(current.folders, Head(parts)) IN
       [current EXCEPT !.folders[i] = ReplaceFolder(current.folders[i], Tail(parts), new)]

RECURSIVE NodeCount(_)
RECURSIVE NodeCountSeq(_)
NodeCount(folder) == Len(folder.files) + Len(folder.folders) + NodeCountSeq(folder.folders)
NodeCountSeq(folders) ==
  IF folders = <<>> THEN 0 ELSE NodeCount(Head(folders)) + NodeCountSeq(Tail(folders))

\* parts.pop(): the popped name (undefined for an empty array) and the rest
PopName(parts) == IF parts = <<>> THEN Undefined ELSE parts[Len(parts)]
PopRest(parts) == IF parts = <<>> THEN <<>> ELSE SubSeq(parts, 1, Len(parts) - 1)

(***************************************************************************)
(* Persistence: JSON.stringify drops a property whose value is undefined,  *)
(* and reading a property that JSON.parse did not produce gives undefined. *)
(***************************************************************************)
JsonFile(f) ==
  IF f.name = Undefined THEN [type |-> f.type, content |-> f.content]
  ELSE [type |-> f.type, name |-> f.name, content |-> f.content]

RECURSIVE JsonFolder(_)
JsonFolder(f) ==
  [type |-> f.type, name |-> f.name,
   folders |-> [i \in 1..Len(f.folders) |-> JsonFolder(f.folders[i])],
   files |-> [i \in 1..Len(f.files) |-> JsonFile(f.files[i])]]

\* a JSON value whose kind the code tests (Array.isArray): an array or a string
JsonArray(items) == [json |-> "array", items |-> items]
JsonString(chars) == [json |-> "string", chars |-> chars]

Stringify(state) ==
  [kind |-> "json",
   doc |-> [root |-> JsonFolder(state.root), cwdParts |-> JsonArray(state.cwdParts)]]

FileOfJson(j) ==
  [type |-> j.type, name |-> IF "name" \in DOMAIN j THEN j.name ELSE Undefined,
   content |-> j.content]

RECURSIVE FolderOfJson(_)
FolderOfJson(j) ==
  [type |-> j.type, name |-> j.name,
   folders |-> [i \in 1..Len(j.folders) |-> FolderOfJson(j.folders[i])],
   files |-> [i \in 1..Len(j.files) |-> FileOfJson(j.files[i])]]

\* getItem returns null, returns '', or returns a text JSON.parse throws on
NoItem == [kind |-> "missing"]
EmptyItem == [kind |-> "empty"]
TextItem == [kind |-> "text"]

\* mutant of load: the type of the persisted root is not looked at
loadAnyRoot(item) ==
  IF item.kind # "json" THEN createDefaultState
  ELSE IF "root" \notin DOMAIN item.doc THEN createDefaultState
  ELSE [root |-> item.doc.root,
        cwdParts |-> IF "cwdParts" \in DOMAIN item.doc /\ item.doc.cwdParts.json = "array"
                     THEN item.doc.cwdParts.items ELSE <<>>]

\* _load() || _createDefaultState(), the constructor; a document without a
\* root property stands for every parsed value whose root is falsy or whose
\* property read throws (null), a root without a type for every root that
\* is no object with a type
load(item) ==
  IF item.kind # "json" THEN createDefaultState
  ELSE IF "root" \notin DOMAIN item.doc THEN createDefaultState
  ELSE IF "type" \notin DOMAIN item.doc.root THEN createDefaultState
  ELSE IF item.doc.root.type # "folder" THEN createDefaultState
  ELSE [root |-> FolderOfJson(item.doc.root),
        cwdParts |-> IF "cwdParts" \in DOMAIN item.doc /\ item.doc.cwdParts.json = "array"
                     THEN item.doc.cwdParts.items ELSE <<>>]

(***************************************************************************)
(* The store's methods.  A store value s is [root, cwdParts, storage]; a   *)
(* method returns the store after the call, err ("" when it returned       *)
(* normally, else the kind of the error thrown) and, for reads, val.       *)
(***************************************************************************)
Ok(s) == [s |-> s, err |-> "", val |-> Empty]
Throw(s, kind) == [s |-> s, err |-> kind, val |-> Empty]

save(s) == [s EXCEPT !.storage = Stringify([root |-> s.root, cwdParts |-> s.cwdParts])]

reset(s) == Ok(save([s EXCEPT !.root = createDefaultState.root,
                              !.cwdParts = createDefaultState.cwdParts]))

getCwdFolder(s) == resolveFolder(s.root, s.cwdParts)

\* mutant of getCwdPath: the display path has no leading '/'
getCwdPathNoRoot(s) == Join(s.cwdParts, Slash)

getCwdPath(s) == Slash \o Join(s.cwdParts, Slash)

\* mutant of changeDirectory: the resolved folder is not checked
changeDirectoryUnchecked(s, path) ==
  Ok(save([s EXCEPT !.cwdParts = normalizePathParts(s.cwdParts, path)]))

changeDirectoryAssignsFirst(s, path) ==
  LET parts == normalizePathParts(s.cwdParts, path)
      folder == resolveFolder(s.root, parts)
      assigned == save([s EXCEPT !.cwdParts = parts])
  IN IF ~folder.found THEN Throw(assigned, "NotFound") ELSE Ok(assigned)

changeDirectory(s, path) ==
  LET parts == normalizePathParts(s.cwdParts, path)
      folder == resolveFolder(s.root, parts)
  IN IF ~folder.found THEN Throw(s, "NotFound")
     ELSE Ok(save([s EXCEPT !.cwdParts = parts]))

\* /[\\/]/.test(name)
HasSeparator(name) == Includes(name, "/") \/ Includes(name, "\\")

\* mutant of mkdir: only the folders of the cwd are searched for the name
mkdirFoldersOnly(s, name) ==
  IF name = Empty \/ HasSeparator(name) THEN Throw(s, "InvalidName")
  ELSE LET cwd == getCwdFolder(s) IN
       IF ~cwd.found THEN Throw(s, "TypeError")
       ELSE IF IndexOfName(cwd.node.folders, name) # 0 THEN Throw(s, "AlreadyExists")
       ELSE Ok(save([s EXCEPT !.root =
              ReplaceFolder(s.root, s.cwdParts,
                [cwd.node EXCEPT !.folders = Append(@, NewFolder(name))])]))

mkdir(s, name) ==
  IF name = Empty \/ HasSeparator(name) THEN Throw(s, "InvalidName")
  ELSE LET cwd == getCwdFolder(s) IN
       IF ~cwd.found THEN Throw(s, "TypeError")
       ELSE IF IndexOfName(cwd.node.folders, name) # 0 \/ IndexOfName(cwd.node.files, name) # 0
       THEN Throw(s, "AlreadyExists")
       ELSE Ok(save([s EXCEPT !.root =
              ReplaceFolder(s.root, s.cwdParts,
                [cwd.node EXCEPT !.folders = Append(@, NewFolder(name))])]))

list(s, path) ==
  LET folder == IF path = Dot THEN getCwdFolder(s)
                ELSE resolveFolder(s.root, normalizePathParts(s.cwdParts, path))
  IN IF ~folder.found THEN [err |-> "NotFound", folders |-> <<>>, files |-> <<>>]
     ELSE [err |-> "",
           folders |-> [i \in 1..Len(folder.node.folders) |-> folder.node.folders[i].name],
           files |-> [i \in 1..Len(folder.node.files) |-> folder.node.files[i].name]]

\* mutant of rmdir: the folder is removed whether or not it has children
rmdirNonEmpty(s, name) ==
  LET cwd == getCwdFolder(s) IN
  IF ~cwd.found THEN Throw(s, "TypeError")
  ELSE LET idx == IndexOfName(cwd.node.folders, name) IN
       IF idx = 0 THEN Throw(s, "NotFound")
       ELSE Ok(save([s EXCEPT !.root =
              ReplaceFolder(s.root, s.cwdParts,
                [cwd.node EXCEPT !.folders = RemoveAt(@, idx)])]))

rmdir(s, name) ==
  LET cwd == getCwdFolder(s) IN
  IF ~cwd.found THEN Throw(s, "TypeError")
  ELSE LET idx == IndexOfName(cwd.node.folders, name) IN
       IF idx = 0 THEN Throw(s, "NotFound")
       ELSE LET folder == cwd.node.folders[idx] IN
            IF Len(folder.folders) # 0 \/ Len(folder.files) # 0 THEN Throw(s, "NotEmpty")
            ELSE Ok(save([s EXCEPT !.root =
                   ReplaceFolder(s.root, s.cwdParts,
                     [cwd.node EXCEPT !.folders = RemoveAt(@, idx)])]))

\* _ensureFileParent
ensureFileParent(s, path) ==
  LET parts == normalizePathParts(s.cwdParts, path)
      name == PopName(parts)
      parent == resolveFolder(s.root, PopRest(parts))
  IN [found |-> parent.found, parentParts |-> PopRest(parts), parent |-> parent.node,
      name |-> name,
      existingFile |-> IF parent.found THEN IndexOfName(parent.node.files, name) ELSE 0]

\* mutant of writeFile: a new file node is pushed even when the file exists
writeFileAlwaysPush(s, path, content) ==
  LET e == ensureFileParent(s, path) IN
  IF ~e.found THEN Throw(s, "NotFound")
  ELSE Ok(save([s EXCEPT !.root =
         ReplaceFolder(s.root, e.parentParts,
           [e.parent EXCEPT !.files = Append(@, NewFile(e.name, content))])]))

writeFile(s, path, content) ==
  LET e == ensureFileParent(s, path) IN
  IF ~e.found THEN Throw(s, "NotFound")
  ELSE LET files == IF e.existingFile # 0
                    THEN [e.parent.files EXCEPT ![e.existingFile].content = content]
                    ELSE Append(e.parent.files, NewFile(e.name, content))
       IN Ok(save([s EXCEPT !.root =
            ReplaceFolder(s.root, e.parentParts, [e.parent EXCEPT !.files = files])]))

\* _getFile and readFile
readFile(s, path) ==
  LET parts == normalizePathParts(s.cwdParts, path)
      name == PopName(parts)
      parent == resolveFolder(s.root, PopRest(parts))
      idx == IF parent.found THEN IndexOfName(parent.node.files, name) ELSE 0
  IN IF idx = 0 THEN Throw(s, "NotFound")
     ELSE [s |-> s, err |-> "", val |-> parent.node.files[idx].content]

unlink(s, path) ==
  LET parts == normalizePathParts(s.cwdParts, path)
      name == PopName(parts)
      parent == resolveFolder(s.root, PopRest(parts))
  IN IF ~parent.found THEN Throw(s, "NotFound")
     ELSE LET idx == IndexOfName(parent.node.files, name) IN
          IF idx = 0 THEN Throw(s, "NotFound")
          ELSE Ok(save([s EXCEPT !.root =
                 ReplaceFolder(s.root, PopRest(parts),
                   [parent.node EXCEPT !.files = RemoveAt(@, idx)])]))

(***************************************************************************)
(* Built-in command handlers.  A handler returns the store after the call, *)
(* handled, shouldContinue, ok, and errs: the kind of each error it        *)
(* printed.                                                                *)
(***************************************************************************)
NotHandled(s) ==
  [s |-> s, handled |-> FALSE, shouldContinue |-> TRUE, ok |-> TRUE, errs |-> <<>>]
Handled(s, ok, errs) ==
  [s |-> s, handled |-> TRUE, shouldContinue |-> TRUE, ok |-> ok, errs |-> errs]

\* programs/cd.js
executeCdCommand(s, command, args) ==
  IF ToLowerCase(command) # <<"c", "d">> THEN NotHandled(s)
  ELSE LET target == IF args = <<>> \/ args[1] = Empty THEN Slash ELSE args[1]
           r == changeDirectory(s, target)
       IN IF r.err # "" THEN Handled(s, FALSE, <<r.err>>) ELSE Handled(r.s, TRUE, <<>>)

RECURSIVE RmdirEach(_, _)
\* the for loop of executeRmdirCommand: the store after it and the errors caught
RmdirEach(s, args) ==
  IF args = <<>> THEN [s |-> s, errs |-> <<>>]
  ELSE LET r == rmdir(s, Head(args))
           rest == RmdirEach(r.s, Tail(args))
       IN [s |-> rest.s, errs |-> (IF r.err # "" THEN <<r.err>> ELSE <<>>) \o rest.errs]

\* programs/rmdir.js
executeRmdirCommand(s, command, args) ==
  IF ToLowerCase(command) # <<"r", "m", "d", "i", "r">> THEN NotHandled(s)
  ELSE IF args = <<>> THEN Handled(s, FALSE, <<"MissingOperand">>)
  ELSE LET r == RmdirEach(s, args) IN Handled(r.s, r.errs = <<>>, r.errs)

RECURSIVE TouchEachTruncates(_, _)
TouchEachTruncates(s, args) ==
  IF args = <<>> THEN [s |-> s, errs |-> <<>>]
  ELSE LET w == writeFile(s, Head(args), Empty)
           rest == TouchEachTruncates(w.s, Tail(args))
       IN [s |-> rest.s, errs |-> (IF w.err # "" THEN <<w.err>> ELSE <<>>) \o rest.errs]

RECURSIVE TouchEach(_, _)
\* the for loop of executeTouchCommand
TouchEach(s, args) ==
  IF args = <<>> THEN [s |-> s, errs |-> <<>>]
  ELSE LET rd == readFile(s, Head(args))
           content == IF rd.err = "" THEN rd.val ELSE Empty
           w == writeFile(s, Head(args), content)
           rest == TouchEach(w.s, Tail(args))
       IN [s |-> rest.s, errs |-> (IF w.err # "" THEN <<w.err>> ELSE <<>>) \o rest.errs]

\* programs/touch.js
executeTouchCommand(s, command, args) ==
  IF ToLowerCase(command) # <<"t", "o", "u", "c", "h">> THEN NotHandled(s)
  ELSE IF args = <<>> THEN Handled(s, FALSE, <<"MissingOperand">>)
  ELSE LET r == TouchEach(s, args) IN Handled(r.s, r.errs = <<>>, r.errs)

RECURSIVE RmEach(_, _)
\* the for loop of executeRmCommand
RmEach(s, args) ==
  IF args = <<>> THEN [s |-> s, errs |-> <<>>]
  ELSE LET r == unlink(s, Head(args))
           rest == RmEach(r.s, Tail(args))
       IN [s |-> rest.s, errs |-> (IF r.err # "" THEN <<r.err>> ELSE <<>>) \o rest.errs]

\* programs/rm.js
executeRmCommand(s, command, args) ==
  IF ToLowerCase(command) # <<"r", "m">> THEN NotHandled(s)
  ELSE IF args = <<>> THEN Handled(s, FALSE, <<"MissingOperand">>)
  ELSE LET r == RmEach(s, args) IN Handled(r.s, r.errs = <<>>, r.errs)

\* programs/copy.js
joinPathLike(base, name) ==
  IF base = Empty \/ base = Dot THEN name
  ELSE IF base = Slash THEN Slash \o name
  ELSE IF EndsWith(base, Slash) THEN base \o name ELSE base \o Slash \o name

basename(path) ==
  LET parts == SelectSeq(Split(path, "/"), LAMBDA p : p # Empty) IN
  IF Len(parts) > 0 THEN parts[Len(parts)] ELSE path

executeCopyCommand(s, command, args) ==
  IF ToLowerCase(command) # <<"c", "o", "p", "y">> THEN NotHandled(s)
  ELSE IF Len(args) < 2 THEN Handled(s, FALSE, <<"MissingOperand">>)
  ELSE LET src == args[1]
           destArg == args[2]
           rd == readFile(s, src)
       IN IF rd.err # "" THEN Handled(s, FALSE, <<rd.err>>)
          ELSE LET dest == IF list(s, destArg).err = ""
                           THEN joinPathLike(destArg, basename(src)) ELSE destArg
                   w == writeFile(s, dest, rd.val)
               IN IF w.err # "" THEN Handled(s, FALSE, <<w.err>>)
                  ELSE Handled(w.s, TRUE, <<>>)

\* programs/mv.js
joinAbsoluteFromParts(parts) == Slash \o Join(parts, Slash)
isSameLocationNever(aParts, bParts) == FALSE
isSameLocation(aParts, bParts) == aParts = bParts
basenameFromParts(parts) == IF Len(parts) > 0 THEN parts[Len(parts)] ELSE Empty
IsPrefix(p, q) == Len(p) <= Len(q) /\ SubSeq(q, 1, Len(p)) = p

\* lines 162-175: the cwd is relocated when it lies in the moved folder; an
\* error of changeDirectory is ignored
MvRelocateCwd(s, srcParts, finalDestParts) ==
  LET srcAbs == joinAbsoluteFromParts(srcParts)
      destAbs == joinAbsoluteFromParts(finalDestParts)
      cwdAbs == getCwdPath(s)
  IN IF cwdAbs = srcAbs \/ StartsWith(cwdAbs, srcAbs \o Slash)
     THEN changeDirectory(s, destAbs \o SliceFrom(cwdAbs, Len(srcAbs))).s
     ELSE s

\* mutant of MvFile: the move is not saved
MvFileNotSaved(s, srcParts, fileIdx, destParentParts, destName) ==
  LET srcParent == resolveFolder(s.root, PopRest(srcParts)).node
      file == srcParent.files[fileIdx]
      root1 == ReplaceFolder(s.root, PopRest(srcParts),
                 [srcParent EXCEPT !.files = RemoveAt(@, fileIdx)])
      destParent == resolveFolder(root1, destParentParts).node
  IN [s EXCEPT !.root = ReplaceFolder(root1, destParentParts,
        [destParent EXCEPT !.files = Append(@, [file EXCEPT !.name = destName])])]

\* lines 143-152: the file leaves its parent's array, is renamed and pushed to
\* the destination parent's array
MvFile(s, srcParts, fileIdx, destParentParts, destName) ==
  LET srcParent == resolveFolder(s.root, PopRest(srcParts)).node
      file == srcParent.files[fileIdx]
      root1 == ReplaceFolder(s.root, PopRest(srcParts),
                 [srcParent EXCEPT !.files = RemoveAt(@, fileIdx)])
      destParent == resolveFolder(root1, destParentParts).node
      root2 == ReplaceFolder(root1, destParentParts,
                 [destParent EXCEPT !.files = Append(@, [file EXCEPT !.name = destName])])
  IN save([s EXCEPT !.root = root2])

\* lines 156-177: the folder leaves its parent's array, is renamed and pushed to
\* the destination parent's array.  When the destination parent is the moved
\* folder or lies inside it, the push happens inside the subtree that was just
\* detached from the root, and the tree under the root keeps only the removal.
MvFolder(s, srcParts, folderIdx, destParentParts, destName) ==
  LET srcParent == resolveFolder(s.root, PopRest(srcParts)).node
      folder == srcParent.folders[folderIdx]
      root1 == ReplaceFolder(s.root, PopRest(srcParts),
                 [srcParent EXCEPT !.folders = RemoveAt(@, folderIdx)])
      destParent == resolveFolder(root1, destParentParts).node
      root2 == IF IsPrefix(srcParts, destParentParts) THEN root1
               ELSE ReplaceFolder(root1, destParentParts,
                      [destParent EXCEPT !.folders = Append(@, [folder EXCEPT !.name = destName])])
  IN save(MvRelocateCwd([s EXCEPT !.root = root2], srcParts, Append(destParentParts, destName)))

executeMvCommand(s, command, args) ==
  IF ToLowerCase(command) # <<"m", "v">> THEN NotHandled(s)
  ELSE IF Len(args) < 2 THEN Handled(s, FALSE, <<"MissingOperand">>)
  ELSE
    LET srcParts == normalizePathParts(s.cwdParts, args[1])
        destParts == normalizePathParts(s.cwdParts, args[2])
        srcParent == resolveFolder(s.root, PopRest(srcParts))
        fileIdx == IF srcParent.found
                   THEN IndexOfName(srcParent.node.files, srcParts[Len(srcParts)]) ELSE 0
        folderIdx == IF fileIdx = 0 /\ srcParent.found
                     THEN IndexOfName(srcParent.node.folders, srcParts[Len(srcParts)]) ELSE 0
        destFolder == resolveFolder(s.root, destParts)
        destParentParts == IF destFolder.found THEN destParts ELSE PopRest(destParts)
        destName == IF destFolder.found THEN basenameFromParts(srcParts)
                    ELSE basenameFromParts(destParts)
        destParent == resolveFolder(s.root, destParentParts)
    IN IF srcParts = <<>> THEN Handled(s, FALSE, <<"RefuseRoot">>)
       ELSE IF fileIdx = 0 /\ folderIdx = 0 THEN Handled(s, FALSE, <<"NotFound">>)
       ELSE IF destName = Empty THEN Handled(s, FALSE, <<"InvalidDestination">>)
       ELSE IF ~destParent.found THEN Handled(s, FALSE, <<"NotFound">>)
       ELSE IF isSameLocation(srcParts, Append(destParentParts, destName))
       THEN Handled(s, TRUE, <<>>)
       ELSE IF IndexOfName(destParent.node.files, destName) # 0
               \/ IndexOfName(destParent.node.folders, destName) # 0
       THEN Handled(s, FALSE, <<"AlreadyExists">>)
       ELSE IF fileIdx # 0
       THEN Handled(MvFile(s, srcParts, fileIdx, destParentParts, destName), TRUE, <<>>)
       ELSE Handled(MvFolder(s, srcParts, folderIdx, destParentParts, destName), TRUE, <<>>)

(***************************************************************************)
(* utils/commandLine.js.  The scanner's locals are a record; null is ""     *)
(* for quote and quoteChar and -1 for tokenStart; indices are 0-based as   *)
(* in the source.                                                          *)
(***************************************************************************)
isWhitespace(ch) == ch \in {" ", "\t", "\n", "\r"}

TokStart == [i |-> 0, buf |-> Empty, tokenStart |-> -1, quote |-> "", quoteChar |-> "",
             hadQuotes |-> FALSE, escaping |-> FALSE, tokens |-> <<>>]

\* lines 55-70
pushToken(t, tokenEnd) ==
  IF t.tokenStart = -1 THEN t
  ELSE [t EXCEPT !.tokens = Append(@, [value |-> t.buf, rawStart |-> t.tokenStart,
                                       rawEnd |-> tokenEnd, quoteChar |-> t.quoteChar,
                                       hadQuotes |-> t.hadQuotes]),
                 !.buf = Empty, !.tokenStart = -1, !.quote = "", !.quoteChar = "",
                 !.hadQuotes = FALSE, !.escaping = FALSE]

\* line 121: the inner loop that consumes a run of whitespace
RECURSIVE SkipWhitespace(_, _)
SkipWhitespace(src, i) ==
  IF i < Len(src) /\ isWhitespace(src[i + 1]) THEN SkipWhitespace(src, i + 1) ELSE i

StartAt(t, at) == IF t.tokenStart = -1 THEN at ELSE t.tokenStart

\* mutant of ScanStep: whitespace ends the token inside quotes too
ScanStepSplitsInQuotes(src, t) ==
  LET ch == src[t.i + 1] IN
  IF t.escaping THEN
    [t EXCEPT !.tokenStart = StartAt(t, t.i - 1), !.buf = Append(@, ch),
              !.escaping = FALSE, !.i = @ + 1]
  ELSE IF ch = "\\" THEN
    [t EXCEPT !.tokenStart = StartAt(t, t.i), !.escaping = TRUE, !.i = @ + 1]
  ELSE IF isWhitespace(ch) THEN
    [pushToken(t, t.i) EXCEPT !.i = SkipWhitespace(src, t.i)]
  ELSE IF t.quote # "" THEN
    IF ch = t.quote THEN [t EXCEPT !.hadQuotes = TRUE, !.i = @ + 1, !.quote = ""]
    ELSE [t EXCEPT !.tokenStart = StartAt(t, t.i), !.buf = Append(@, ch), !.i = @ + 1]
  ELSE IF ch \in {"\"", "'"} THEN
    [t EXCEPT !.tokenStart = StartAt(t, t.i), !.quote = ch, !.quoteChar = ch,
              !.hadQuotes = TRUE, !.i = @ + 1]
  ELSE [t EXCEPT !.tokenStart = StartAt(t, t.i), !.buf = Append(@, ch), !.i = @ + 1]

\* lines 73-127: one turn of the while loop
ScanStep(src, t) ==
  LET ch == src[t.i + 1] IN
  IF t.escaping THEN
    [t EXCEPT !.tokenStart = StartAt(t, t.i - 1), !.buf = Append(@, ch),
              !.escaping = FALSE, !.i = @ + 1]
  ELSE IF ch = "\\" THEN
    [t EXCEPT !.tokenStart = StartAt(t, t.i), !.escaping = TRUE, !.i = @ + 1]
  ELSE IF t.quote # "" THEN
    IF ch = t.quote THEN [t EXCEPT !.hadQuotes = TRUE, !.i = @ + 1, !.quote = ""]
    ELSE [t EXCEPT !.tokenStart = StartAt(t, t.i), !.buf = Append(@, ch), !.i = @ + 1]
  ELSE IF ch \in {"\"", "'"} THEN
    [t EXCEPT !.tokenStart = StartAt(t, t.i), !.quote = ch, !.quoteChar = ch,
              !.hadQuotes = TRUE, !.i = @ + 1]
  ELSE IF isWhitespace(ch) THEN
    [pushToken(t, t.i) EXCEPT !.i = SkipWhitespace(src, t.i)]
  ELSE [t EXCEPT !.tokenStart = StartAt(t, t.i), !.buf = Append(@, ch), !.i = @ + 1]

\* lines 72-128: the while loop, up to its exit
RECURSIVE ScanLoop(_, _)
ScanLoop(src, t) ==
  IF t.i < Len(src) THEN Only({ScanLoop(src, next) : next \in {ScanStep(src, t)}}) ELSE t

\* lines 130-146: what follows the loop
TokFinish(src, t) ==
  LET t1 == IF t.escaping THEN [t EXCEPT !.buf = Append(@, "\\"), !.escaping = FALSE] ELSE t
      t2 == IF t1.tokenStart # -1 THEN pushToken(t1, Len(src)) ELSE t1
  IN [tokens |-> t2.tokens,
      endsWithSpace |-> Len(src) > 0 /\ isWhitespace(src[Len(src)]),
      unterminatedQuote |-> t2.quote # ""]

tokenizeCommandLine(input) == TokFinish(input, ScanLoop(input, TokStart))

parseCommandLine(input) ==
  LET tokens == tokenizeCommandLine(input).tokens
      parts == [k \in 1..Len(tokens) |-> tokens[k].value]
  IN [command |-> IF Len(parts) > 0 THEN parts[1] ELSE Empty,
      args |-> IF Len(parts) > 1 THEN SubSeq(parts, 2, Len(parts)) ELSE <<>>]

RECURSIVE ReplaceAll(_, _, _)
\* String.prototype.replace(/ch/g, by) for a one-character pattern
ReplaceAll(s, ch, by) ==
  IF s = <<>> THEN <<>>
  ELSE (IF Head(s) = ch THEN by ELSE <<Head(s)>>) \o ReplaceAll(Tail(s), ch, by)

\* /\s|"|'|\\/.test(v)
NeedsQuoting(v) == \E k \in 1..Len(v) : isWhitespace(v[k]) \/ v[k] \in {"\"", "'", "\\"}

\* mutant of quoteArgIfNeeded: the value is wrapped without any escaping
quoteArgWrapOnly(v, preferredQuote) ==
  IF ~NeedsQuoting(v) THEN v
  ELSE LET q == IF preferredQuote = "'" THEN "'" ELSE "\"" IN <<q>> \o v \o <<q>>

quoteArgIfNeeded(v, preferredQuote) ==
  IF ~NeedsQuoting(v) THEN v
  ELSE LET q == IF preferredQuote = "'" THEN "'" ELSE "\""
           escaped == ReplaceAll(ReplaceAll(v, "\\", <<"\\", "\\">>), q, <<"\\", q>>)
       IN <<q>> \o escaped \o <<q>>

NoTok == [tokens |-> <<>>, endsWithSpace |-> FALSE, unterminatedQuote |-> FALSE,
          command |-> Empty, args |-> <<>>]


(***************************************************************************)
(* jsShellHolder.js and programs/runScript.js: command dispatch.           *)
(***************************************************************************)
RECURSIVE TrimStart(_)
TrimStart(s) == IF s # Empty /\ isWhitespace(Head(s)) THEN TrimStart(Tail(s)) ELSE s
RECURSIVE TrimEnd(_)
TrimEnd(s) ==
  IF s # Empty /\ isWhitespace(s[Len(s)]) THEN TrimEnd(SubSeq(s, 1, Len(s) - 1)) ELSE s
\* String.prototype.trim
Trim(s) == TrimEnd(TrimStart(s))

\* String.prototype.split(/\r?\n/)
SplitLines(content) ==
  LET pieces == Split(content, "\n") IN
  [k \in 1..Len(pieces) |->
     IF k < Len(pieces) /\ EndsWith(pieces[k], <<"\r">>)
     THEN SubSeq(pieces[k], 1, Len(pieces[k]) - 1) ELSE pieces[k]]

NoCommand == [command |-> Empty, args |-> <<>>]

parseSimpleCommandLine(line) ==
  LET trimmed == Trim(line) IN
  IF trimmed = Empty THEN NoCommand
  ELSE IF StartsWith(trimmed, <<"#">>) \/ StartsWith(trimmed, <<"/", "/">>) THEN NoCommand
  ELSE parseCommandLine(trimmed)

\* programs/exit.js
executeExitCommand(s, command, args) ==
  IF ToLowerCase(command) # <<"e", "x", "i", "t">> THEN NotHandled(s)
  ELSE [Handled(s, TRUE, <<>>) EXCEPT !.shouldContinue = FALSE]

RECURSIVE MkdirEach(_, _)
MkdirEach(s, args) ==
  IF args = <<>> THEN [s |-> s, errs |-> <<>>]
  ELSE LET r == mkdir(s, Head(args))
           rest == MkdirEach(r.s, Tail(args))
       IN [s |-> rest.s, errs |-> (IF r.err # "" THEN <<r.err>> ELSE <<>>) \o rest.errs]

\* programs/mkdir.js: the mkdir built-in creates one folder per operand through
\* the store's mkdir and fails when an operand is missing or a call failed
executeMkdirCommand(s, command, args) ==
  IF ToLowerCase(command) # <<"m", "k", "d", "i", "r">> THEN NotHandled(s)
  ELSE IF args = <<>> THEN Handled(s, FALSE, <<"MissingOperand">>)
  ELSE LET r == MkdirEach(s, args) IN Handled(r.s, r.errs = <<>>, r.errs)

\* the text of a hosted program that throws, and of one that returns
jsThrow == <<"t", "h", "r", "o", "w", " ", "1">>
jsOk == <<"1">>

\* runSource: the program is evaluated; of the programs the model stores, the
\* one that starts with a throw statement fails and the others return
runSource(source) ==
  IF StartsWith(source, <<"t", "h", "r", "o", "w">>) THEN [ok |-> FALSE, error |-> "Thrown"]
  ELSE [ok |-> TRUE, error |-> ""]

DotSlash == <<".", "/">>
ExtJs == <<".", "j", "s">>
ExtJsh == <<".", "j", "s", "h">>

\* mutant of executeVfsScript: a program that fails ends the session
executeVfsScriptEndsOnFailure(s, scriptPath, args, invokedAs) ==
  LET rd == readFile(s, scriptPath) IN
  IF rd.err # "" THEN [ranAs |-> Empty, shouldContinue |-> FALSE] @@ Handled(s, FALSE, <<rd.err>>)
  ELSE LET run == runSource(rd.val) IN
       [ranAs |-> IF invokedAs # Empty THEN invokedAs ELSE scriptPath,
        shouldContinue |-> run.ok]
         @@ Handled(s, run.ok, IF run.ok THEN <<>> ELSE <<run.error>>)

\* runScript.js lines 48-64; ranAs is the command the program is started
\* with (invokedAs || scriptPath), none when the file cannot be read
executeVfsScript(s, scriptPath, args, invokedAs) ==
  LET rd == readFile(s, scriptPath) IN
  IF rd.err # "" THEN [ranAs |-> Empty] @@ Handled(s, FALSE, <<rd.err>>)
  ELSE LET run == runSource(rd.val) IN
       [ranAs |-> IF invokedAs # Empty THEN invokedAs ELSE scriptPath]
         @@ Handled(s, run.ok, IF run.ok THEN <<>> ELSE <<run.error>>)

\* mutant of executeScriptFile: a file that cannot be read is left to the
\* handlers after it
executeScriptFileDeclines(s, command, args) ==
  IF command = Empty \/ ~StartsWith(command, DotSlash) \/ ~EndsWith(command, ExtJs)
  THEN NotHandled(s)
  ELSE LET canonicalPath == normalizePathFromCwd(getCwdPath(s), SliceFrom(command, 2))
           rd == readFile(s, canonicalPath)
       IN IF rd.err # "" THEN NotHandled(s)
          ELSE LET run == runSource(rd.val) IN
               Handled(s, run.ok, IF run.ok THEN <<>> ELSE <<run.error>>)

\* runScript.js lines 80-99
executeScriptFile(s, command, args) ==
  IF command = Empty \/ ~StartsWith(command, DotSlash) \/ ~EndsWith(command, ExtJs)
  THEN NotHandled(s)
  ELSE LET canonicalPath == normalizePathFromCwd(getCwdPath(s), SliceFrom(command, 2))
           rd == readFile(s, canonicalPath)
       IN IF rd.err # "" THEN Handled(s, FALSE, <<rd.err>>)
          ELSE LET run == runSource(rd.val) IN
               Handled(s, run.ok, IF run.ok THEN <<>> ELSE <<run.error>>)

RECURSIVE LsRest(_, _)
\* programs/ls.js parseLsArgs: the operands that are left when the flags are taken out
LsRest(args, parsingFlags) ==
  IF args = <<>> THEN <<>>
  ELSE LET a == Head(args) IN
       IF parsingFlags /\ a = <<"-", "-">> THEN LsRest(Tail(args), FALSE)
       ELSE IF parsingFlags /\ StartsWith(a, <<"-">>) /\ Len(a) > 1
       THEN LsRest(Tail(args), parsingFlags)
       ELSE <<a>> \o LsRest(Tail(args), parsingFlags)

\* programs/ls.js: the listing is printed, the store is only read
executeLsCommand(s, command, args) ==
  IF ToLowerCase(command) # <<"l", "s">> THEN NotHandled(s)
  ELSE LET rest == LsRest(args, TRUE)
           target == IF rest # <<>> /\ rest[1] # Empty THEN rest[1] ELSE Dot
           listing == list(s, target)
       IN Handled(s, listing.err = "", IF listing.err = "" THEN <<>> ELSE <<listing.err>>)

\* programs/backup.js: a snapshot of localStorage is offered as a download
executeBackupProgram(s, command, args) ==
  IF command # <<"b", "a", "c", "k", "u", "p">> THEN NotHandled(s)
  ELSE Handled(s, TRUE, <<>>)

\* programs/restore.js, up to the file picker, which the user leaves
\* without choosing a file
executeRestoreProgram(s, command, args) ==
  IF command # <<"r", "e", "s", "t", "o", "r", "e">> THEN NotHandled(s)
  ELSE Handled(s, TRUE, <<>>)

\* programs/config.js for the subcommands that read the configuration
\* (show, help, get) and for unknown ones: messages are printed
executeConfigProgram(s, command, args) ==
  IF command # <<"c", "o", "n", "f", "i", "g">> THEN NotHandled(s)
  ELSE Handled(s, TRUE, <<>>)

\* the registered handlers the model has, in the order of commandModules
commandModules ==
  <<"exit", "mkdir", "ls", "rmdir", "cd", "touch", "rm", "copy", "mv", "executeScriptFile",
    "backup", "restore", "config">>

CallHandler(handler, s, command, args) ==
  CASE handler = "exit" -> executeExitCommand(s, command, args)
    [] handler = "mkdir" -> executeMkdirCommand(s, command, args)
    [] handler = "ls" -> executeLsCommand(s, command, args)
    [] handler = "rmdir" -> executeRmdirCommand(s, command, args)
    [] handler = "cd" -> executeCdCommand(s, command, args)
    [] handler = "touch" -> executeTouchCommand(s, command, args)
    [] handler = "rm" -> executeRmCommand(s, command, args)
    [] handler = "copy" -> executeCopyCommand(s, command, args)
    [] handler = "mv" -> executeMvCommand(s, command, args)
    [] handler = "executeScriptFile" -> executeScriptFile(s, command, args)
    [] handler = "backup" -> executeBackupProgram(s, command, args)
    [] handler = "restore" -> executeRestoreProgram(s, command, args)
    [] handler = "config" -> executeConfigProgram(s, command, args)

RECURSIVE DispatchFrom(_, _, _, _)
\* lines 437-452: the first handler that reports handled ends the loop; by
\* names that handler
FirstHandled(k, s, command, args, result) ==
  IF result.handled THEN [by |-> commandModules[k]] @@ result
  ELSE DispatchFrom(k + 1, s, command, args)

DispatchFrom(k, s, command, args) ==
  IF k > Len(commandModules) THEN NotHandled(s)
  ELSE Only({FirstHandled(k, s, command, args, result) :
               result \in {CallHandler(commandModules[k], s, command, args)}})

dispatchRegisteredModules(s, command, args) == DispatchFrom(1, s, command, args)

\* mutant of expandAliasesOnce: the tokens of the expansion follow the arguments
expandAliasesOnceAppends(e, command, args) ==
  IF command \notin DOMAIN e.ALIAS \/ Trim(e.ALIAS[command]) = Empty
  THEN [command |-> command, args |-> args, fresh |-> FALSE]
  ELSE LET parsed == parseCommandLine(Trim(e.ALIAS[command])) IN
       [command |-> IF parsed.command # Empty THEN parsed.command ELSE command,
        args |-> args \o parsed.args, fresh |-> TRUE]

\* lines 226-235; fresh tells that args is a new array (concat), which the
\* identity test of expandAliases sees
expandAliasesOnce(e, command, args) ==
  IF command \notin DOMAIN e.ALIAS \/ Trim(e.ALIAS[command]) = Empty
  THEN [command |-> command, args |-> args, fresh |-> FALSE]
  ELSE LET parsed == parseCommandLine(Trim(e.ALIAS[command])) IN
       [command |-> IF parsed.command # Empty THEN parsed.command ELSE command,
        args |-> parsed.args \o args, fresh |-> TRUE]

RECURSIVE ExpandFrom(_, _, _, _, _, _, _), ExpandFromUnseen(_, _, _, _, _, _, _)
\* mutant of ExpandFrom: the names already substituted are not looked at
ExpandFromUnseen(e, i, maxDepth, seen, substituted, currentCommand, currentArgs) ==
  IF i >= maxDepth
  THEN [command |-> currentCommand, args |-> currentArgs, substituted |-> substituted]
  ELSE LET expanded == expandAliasesOnce(e, currentCommand, currentArgs) IN
       IF expanded.command = currentCommand /\ ~expanded.fresh
       THEN [command |-> currentCommand, args |-> currentArgs, substituted |-> substituted]
       ELSE ExpandFrom(e, i + 1, maxDepth, seen \cup {currentCommand},
                       Append(substituted, currentCommand), expanded.command, expanded.args)

\* lines 242-252, the for loop; substituted lists, in order, the command names
\* the loop has replaced (one per turn that reaches line 250)
ExpandFrom(e, i, maxDepth, seen, substituted, currentCommand, currentArgs) ==
  IF i >= maxDepth \/ currentCommand \in seen
  THEN [command |-> currentCommand, args |-> currentArgs, substituted |-> substituted]
  ELSE LET expanded == expandAliasesOnce(e, currentCommand, currentArgs) IN
       IF expanded.command = currentCommand /\ ~expanded.fresh
       THEN [command |-> currentCommand, args |-> currentArgs, substituted |-> substituted]
       ELSE ExpandFrom(e, i + 1, maxDepth, seen \cup {currentCommand},
                       Append(substituted, currentCommand), expanded.command, expanded.args)

AliasMaxDepth == 5

expandAliases(e, command, args) == ExpandFrom(e, 0, AliasMaxDepth, {}, <<>>, command, args)

RECURSIVE StripTrailingSlashes(_)
StripTrailingSlashes(s) ==
  IF s # Empty /\ s[Len(s)] = "/" THEN StripTrailingSlashes(SubSeq(s, 1, Len(s) - 1)) ELSE s
RECURSIVE StripLeadingSlashes(_)
StripLeadingSlashes(s) ==
  IF s # Empty /\ Head(s) = "/" THEN StripLeadingSlashes(Tail(s)) ELSE s

joinVfsPath(dir, file) == StripTrailingSlashes(dir) \o Slash \o StripLeadingSlashes(file)

NoScript == [found |-> FALSE, path |-> Empty]

RECURSIVE ResolveOnDirsLastWins(_, _, _)
\* mutant of ResolveOnDirs: the last directory that holds the file wins
ResolveOnDirsLastWins(s, dirs, fileName) ==
  IF dirs = <<>> THEN NoScript
  ELSE LET later == ResolveOnDirsLastWins(s, Tail(dirs), fileName)
           listing == list(s, Head(dirs))
       IN IF later.found THEN later
          ELSE IF StartsWith(Head(dirs), Slash) /\ listing.err = ""
                  /\ (\E k \in 1..Len(listing.files) : listing.files[k] = fileName)
          THEN [found |-> TRUE, path |-> joinVfsPath(Head(dirs), fileName)]
          ELSE NoScript

RECURSIVE ResolveOnDirs(_, _, _)
\* lines 270-281: the directories of PATH are tried in order
ResolveOnDirs(s, dirs, fileName) ==
  IF dirs = <<>> THEN NoScript
  ELSE LET dir == Head(dirs)
           listing == list(s, dir)
       IN IF StartsWith(dir, Slash) /\ listing.err = ""
             /\ (\E k \in 1..Len(listing.files) : listing.files[k] = fileName)
          THEN [found |-> TRUE, path |-> joinVfsPath(dir, fileName)]
          ELSE ResolveOnDirs(s, Tail(dirs), fileName)

resolveScriptOnPath(s, e, commandName) ==
  IF commandName = Empty \/ Includes(commandName, "/") THEN NoScript
  ELSE ResolveOnDirs(s, e.PATH,
         IF EndsWith(commandName, ExtJs) THEN commandName ELSE commandName \o ExtJs)

StrictResult(s, ok, handled, shouldContinue, error) ==
  [s |-> s, ok |-> ok, handled |-> handled, shouldContinue |-> shouldContinue, error |-> error]

\* lines 471-479: what dispatchStrict makes of the result of the handlers
StrictOutcome(s, final) ==
  IF ~final.handled THEN StrictResult(s, FALSE, FALSE, TRUE, "CommandNotFound")
  ELSE IF ~final.ok THEN StrictResult(final.s, FALSE, TRUE, TRUE, "ExecutionFailed")
  ELSE StrictResult(final.s, TRUE, TRUE, final.shouldContinue, "")

\* the PATH fallback of a typed line (mainLoop, lines 633-642)
\* mutant of PathFallback: a script found on PATH runs whatever the handlers did
PathFallbackAlways(s, e, x, result) ==
  Only({IF script.found
        THEN [by |-> "PATH", script |-> script.path]
               @@ executeVfsScript(result.s, script.path, x.args, x.command)
        ELSE result : script \in {resolveScriptOnPath(s, e, x.command)}})

PathFallback(s, e, x, result) ==
  IF result.handled THEN result
  ELSE Only({IF script.found
             THEN [by |-> "PATH", script |-> script.path]
                    @@ executeVfsScript(s, script.path, x.args, x.command)
             ELSE result : script \in {resolveScriptOnPath(s, e, x.command)}})

\* the handler loop of a typed line and its fallback (mainLoop, lines 611-642)
ResolveTyped(s, e, x) ==
  Only({PathFallback(s, e, x, result) :
          result \in {dispatchRegisteredModules(s, x.command, x.args)}})

\* mutant of dispatchStrict: the line is resolved as a typed line is, with
\* alias expansion before the handlers and the PATH fallback after them
dispatchStrictAsTyped(s, e, command, args) ==
  IF command = Empty THEN StrictResult(s, TRUE, TRUE, TRUE, "")
  ELSE Only({StrictOutcome(s, final) :
               final \in {ResolveTyped(s, e, x) : x \in {expandAliases(e, command, args)}}})

\* lines 458-483; e is the env of the enclosing scope, which the body never reads
dispatchStrict(s, e, command, args) ==
  IF command = Empty THEN StrictResult(s, TRUE, TRUE, TRUE, "")
  ELSE Only({StrictOutcome(s, result) :
               result \in {dispatchRegisteredModules(s, command, args)}})

TreeOf(s) == [root |-> s.root, cwdParts |-> s.cwdParts]

(***************************************************************************)
(* jsShellHolder.js: the shell state kept in the store under /sys, and     *)
(* the history step of the main loop.                                      *)
(***************************************************************************)
SYS_DIR == <<"/", "s", "y", "s">>
SYS_HISTORY_PATH == SYS_DIR \o <<"/", "h", "i", "s", "t", "o", "r", "y", ".", "j", "s", "o", "n">>
SYS_HISTORY_LIMIT_PATH ==
  SYS_DIR \o <<"/", "h", "i", "s", "t", "o", "r", "y", "L", "i", "m", "i", "t", ".", "t", "x", "t">>

\* String(path).split('/').filter(Boolean)
PathParts(path) == SelectSeq(Split(path, "/"), LAMBDA p : p # Empty)

\* lines 44-48
getParentDir(path) ==
  LET parts == PathParts(path) IN
  Slash \o Join(IF parts = <<>> THEN <<>> ELSE SubSeq(parts, 1, Len(parts) - 1), Slash)

RECURSIVE EnsureParts(_, _)
\* lines 54-61: the loop ends at the first folder that cannot be entered
EnsureParts(s, parts) ==
  IF parts = <<>> THEN s
  ELSE Only({IF entered.err # "" THEN entered.s ELSE EnsureParts(entered.s, Tail(parts)) :
               entered \in {changeDirectory(made, Head(parts)) :
                              made \in {mkdir(s, Head(parts)).s}}})

\* lines 50-72
ensureDirPath(s, path) ==
  Only({changeDirectory(made, getCwdPath(s)).s :
          made \in {IF atRoot.err # "" THEN atRoot.s ELSE EnsureParts(atRoot.s, PathParts(path)) :
                      atRoot \in {changeDirectory(s, Slash)}}})

\* lines 84-94: errors are ignored
writeJsonToVfs(s, path, text) ==
  Only({writeFile(s1, path, text).s :
          s1 \in {IF getParentDir(path) # Slash THEN ensureDirPath(s, getParentDir(path)) ELSE s}})

\* JSON.stringify of one string
StringifyString(l) ==
  <<"\"">> \o ReplaceAll(ReplaceAll(l, "\\", <<"\\", "\\">>), "\"", <<"\\", "\"">>) \o <<"\"">>

\* JSON.stringify(lines, null, 2) of an array of strings
StringifyLines(lines) ==
  IF lines = <<>> THEN <<"[", "]">>
  ELSE <<"[", "\n">>
       \o Join([k \in 1..Len(lines) |-> <<" ", " ">> \o StringifyString(lines[k])], <<",", "\n">>)
       \o <<"\n", "]">>

\* readHistoryLimitFromVfs: the number /sys/historyLimit.txt holds
historyLimit == 1

\* lines 286-292
persistHistoryKeepsOldest(s, history) ==
  Only({[s |-> writeJsonToVfs(s, SYS_HISTORY_PATH, StringifyLines(kept)), history |-> kept] :
          kept \in {IF Len(history) > historyLimit
                    THEN SubSeq(history, 1, historyLimit)
                    ELSE history}})

persistHistory(s, history) ==
  Only({[s |-> writeJsonToVfs(s, SYS_HISTORY_PATH, StringifyLines(kept)), history |-> kept] :
          kept \in {IF Len(history) > historyLimit
                    THEN SubSeq(history, Len(history) - historyLimit + 1, Len(history))
                    ELSE history}})

\* lines 571-575: a line that is not blank and differs from the last one remembered
RememberLine(s, history, trimmedInput) ==
  IF trimmedInput # Empty /\ (history = <<>> \/ history[Len(history)] # trimmedInput)
  THEN persistHistory(s, Append(history, trimmedInput))
  ELSE [s |-> s, history |-> history]

\* lines 561-569: the line is trimmed and tokenized, aliases are expanded
ReadLine(e, input) ==
  Only({[trimmedInput |-> Trim(input), typed |-> parsed.command,
         x |-> expandAliases(e, parsed.command, parsed.args)] :
          parsed \in {parseCommandLine(Trim(input))}})

\* what one turn of the for loop of runJshScript leaves: the store, the script
\* record and where the shell goes next
JshTurn(s, j, next) == [s |-> s, j |-> j, pc |-> next]

JshEntry(s, j, parsed, r) ==
  [line |-> j.i + 1, command |-> parsed.command, args |-> parsed.args,
   ok |-> r.ok, handled |-> r.handled, error |-> r.error,
   pre |-> TreeOf(s), post |-> TreeOf(r.s)]

\* mutant of JshAfterDispatch: a failed line does not end the script
JshAfterDispatchGoesOn(s, j, parsed, r) ==
  LET j1 == [j EXCEPT !.ran = Append(@, JshEntry(s, j, parsed, r))] IN
  IF ~r.shouldContinue THEN JshTurn(r.s, j1, "exited")
  ELSE JshTurn(r.s, [j1 EXCEPT !.i = @ + 1], "jsh")

\* mutant of JshAfterDispatch: the script goes on after a line that ends the
\* session
JshAfterDispatchIgnoresExit(s, j, parsed, r) ==
  LET j1 == [j EXCEPT !.ran = Append(@, JshEntry(s, j, parsed, r))] IN
  IF ~r.ok THEN JshTurn(r.s, [j1 EXCEPT !.stoppedAt = j.i + 1], "result")
  ELSE JshTurn(r.s, [j1 EXCEPT !.i = @ + 1], "jsh")

\* lines 508-520: what the loop does with the result r of the line's dispatch
JshAfterDispatch(s, j, parsed, r) ==
  LET j1 == [j EXCEPT !.ran = Append(@, JshEntry(s, j, parsed, r))] IN
  IF ~r.ok THEN JshTurn(r.s, [j1 EXCEPT !.stoppedAt = j.i + 1], "result")
  ELSE IF ~r.shouldContinue THEN JshTurn(r.s, j1, "exited")
  ELSE JshTurn(r.s, [j1 EXCEPT !.i = @ + 1], "jsh")

\* lines 502-507: a line without a command is skipped, any other is dispatched
JshLine(s, e, j, parsed) ==
  IF parsed.command = Empty THEN JshTurn(s, [j EXCEPT !.i = @ + 1], "jsh")
  ELSE Only({JshAfterDispatch(s, j, parsed, r) :
               r \in {dispatchStrict(s, e, parsed.command, parsed.args)}})

\* lines 500-521: one turn of the for loop, or its exit
runJshStep(s, e, j) ==
  IF j.i >= Len(j.lines) THEN JshTurn(s, j, "result")
  ELSE Only({JshLine(s, e, j, parsed) : parsed \in {parseSimpleCommandLine(j.lines[j.i + 1])}})

(***************************************************************************)
(* The shell as a state machine.  At "prompt" the main loop waits for an   *)
(* input line; a handler call runs to completion and leaves the shell at   *)
(* "result" with last describing the call and the store before it; the     *)
(* loop then returns to the prompt.                                        *)
(***************************************************************************)
Store == [root |-> root, cwdParts |-> cwdParts, storage |-> storage]

NoLast == [op |-> "none", args |-> <<>>, ok |-> TRUE, errs |-> <<>>,
           pre |-> [root |-> createDefaultState.root, cwdParts |-> <<>>, storage |-> NoItem]]
\* no completion session (state.completionSession = null)
NoSession == [active |-> FALSE, type |-> "none", items |-> <<>>, index |-> 0,
              beforeWord |-> <<>>, afterWord |-> <<>>, dirPart |-> <<>>, quoteChar |-> "",
              lastInput |-> <<>>]
\* jsShellHolder.js lines 298-303; searchMode is false there and no code of
\* the repository sets it, so it and searchQuery are left out
NoState == [historyIndex |-> -1, completionSession |-> NoSession]
\* a fresh input field, nothing printed by the key handler, no key pressed
NoTerminal == [value |-> <<>>, goodbye |-> FALSE, keys |-> 0]
NoJsh == [lines |-> <<>>, i |-> 0, ran |-> <<>>, invokedAs |-> Empty, stoppedAt |-> 0]
\* jsShellHolder.js line 205
DefaultEnv == [PATH |-> <<<<"/", "b", "i", "n">>>>, ALIAS |-> <<>>]

\* argument values the model draws its inputs from
pA == <<"a">>
pB == <<"b">>
pAbsA == <<"/", "a">>
pAB == <<"a", "/", "b">>
pABackslashB == <<"a", "\\", "b">>
cHello == <<"h">>
cWorld == <<"w">>

PathArgs == {Slash, Dot, DotDot, pA, pB, pAbsA, pAB}
MkdirNames == {pA, pB, DotDot, pABackslashB, pAB, Empty}
RmdirArgs == {<<pA>>, <<pB>>, <<pA, pB>>, <<>>}
TouchArgs == {<<p>> : p \in PathArgs \cup {pABackslashB}} \cup {<<pA, pAB>>}
RmArgs == {<<p>> : p \in PathArgs} \cup {<<pA, pB>>}
CdArgs == {<<p>> : p \in PathArgs} \cup {<<>>}
Contents == {cHello, cWorld}

\* the store taken over from a result r, and the call recorded in last
Record(op, args, r) ==
  /\ root' = r.s.root
  /\ cwdParts' = r.s.cwdParts
  /\ storage' = r.s.storage
  /\ last' = [op |-> op, args |-> args, ok |-> r.ok, errs |-> r.errs, pre |-> Store]
  /\ pc' = "result"
  /\ UNCHANGED <<jsh, tokIn, tokOut, env, commandHistory, uiState, terminal, commandsFromPath>>

\* the same, for the trees the model keeps
Finish(op, args, r) == NodeCount(r.s.root) <= MaxNodes /\ Record(op, args, r)

\* a direct call of a store method (hosted scripts, the editor, upload, init)
OfCall(r) == [s |-> r.s, ok |-> r.err = "", errs |-> IF r.err = "" THEN <<>> ELSE <<r.err>>]

Cd(args) == pc = "prompt" /\ Finish("cd", args, executeCdCommand(Store, <<"c", "d">>, args))

Mkdir(name) == pc = "prompt" /\ Finish("mkdir", <<name>>, OfCall(mkdir(Store, name)))

Rmdir(args) ==
  pc = "prompt" /\ Finish("rmdir", args, executeRmdirCommand(Store, <<"r", "m", "d", "i", "r">>, args))

Touch(args) ==
  pc = "prompt" /\ Finish("touch", args, executeTouchCommand(Store, <<"t", "o", "u", "c", "h">>, args))

Rm(args) == pc = "prompt" /\ Finish("rm", args, executeRmCommand(Store, <<"r", "m">>, args))

Copy(src, dest) ==
  pc = "prompt" /\ Finish("copy", <<src, dest>>, executeCopyCommand(Store, <<"c", "o", "p", "y">>, <<src, dest>>))

Mv(src, dest) ==
  pc = "prompt" /\ Finish("mv", <<src, dest>>, executeMvCommand(Store, <<"m", "v">>, <<src, dest>>))

WriteFile(path, content) ==
  pc = "prompt" /\ Finish("writeFile", <<path, content>>, OfCall(writeFile(Store, path, content)))

Reset == pc = "prompt" /\ Finish("reset", <<>>, OfCall(reset(Store)))

\* the store methods the handlers wrap, called directly as hosted scripts and
\* the editor call them
StoreOps == {"vfs.changeDirectory", "vfs.rmdir", "vfs.readFile", "vfs.unlink", "vfs.list"}
CallStore(s, op, path) ==
  CASE op = "vfs.changeDirectory" -> changeDirectory(s, path)
    [] op = "vfs.rmdir" -> rmdir(s, path)
    [] op = "vfs.readFile" -> readFile(s, path)
    [] op = "vfs.unlink" -> unlink(s, path)
    [] op = "vfs.list" -> [s |-> s, err |-> list(s, path).err, val |-> Empty]
StoreCall(op, path) ==
  pc = "prompt" /\ Finish(op, <<path>>, OfCall(CallStore(Store, op, path)))

\* the main loop goes back to shell.input
Prompt ==
  /\ pc = "result"
  /\ pc' = "prompt"
  /\ last' = NoLast
  /\ jsh' = NoJsh
  /\ UNCHANGED <<root, cwdParts, storage, tokIn, tokOut, env, commandHistory, uiState, terminal, commandsFromPath>>

\* the store right after reset(), as init leaves it before it builds the base layout
Init ==
  /\ root = createDefaultState.root
  /\ cwdParts = createDefaultState.cwdParts
  /\ storage = Stringify(createDefaultState)
  /\ pc = "prompt"
  /\ last = NoLast
  /\ jsh = NoJsh
  /\ tokIn = Empty
  /\ tokOut = NoTok
  /\ env = DefaultEnv
  /\ commandHistory = <<>>
  /\ uiState = NoState
  /\ terminal = NoTerminal
  /\ commandsFromPath = {}

Next ==
  \/ \E args \in CdArgs : Cd(args)
  \/ \E name \in MkdirNames : Mkdir(name)
  \/ \E args \in RmdirArgs : Rmdir(args)
  \/ \E args \in TouchArgs : Touch(args)
  \/ \E args \in RmArgs : Rm(args)
  \/ \E src \in PathArgs, dest \in PathArgs : Copy(src, dest)
  \/ \E src \in PathArgs, dest \in PathArgs : Mv(src, dest)
  \/ \E path \in PathArgs, content \in Contents : WriteFile(path, content)
  \/ \E op \in StoreOps, path \in PathArgs : StoreCall(op, path)
  \/ Reset
  \/ Prompt

Spec == Init /\ [][Next]_vars

(***************************************************************************)
(* The line reader: a line typed at the prompt is tokenised and split into *)
(* command and arguments (jsShellHolder.js mainLoop, through               *)
(* parseCommandLine).                                                      *)
(***************************************************************************)
LineChars == {"a", " ", "\"", "'", "\\"}

RECURSIVE LinesUpTo(_)
LinesUpTo(n) ==
  IF n = 0 THEN {Empty}
  ELSE LET shorter == LinesUpTo(n - 1) IN
       shorter \cup {Append(l, c) : l \in {x \in shorter : Len(x) = n - 1}, c \in LineChars}

Tokenize(src) ==
  /\ pc = "prompt"
  /\ tokIn' = src
  /\ tokOut' = LET r == tokenizeCommandLine(src)
                   c == parseCommandLine(src)
               IN [tokens |-> r.tokens, endsWithSpace |-> r.endsWithSpace,
                   unterminatedQuote |-> r.unterminatedQuote,
                   command |-> c.command, args |-> c.args]
  /\ pc' = "tokenized"
  /\ UNCHANGED <<root, cwdParts, storage, last, jsh, env, commandHistory, uiState, terminal, commandsFromPath>>

NextLine ==
  /\ pc = "tokenized"
  /\ pc' = "prompt"
  /\ tokIn' = Empty
  /\ tokOut' = NoTok
  /\ UNCHANGED <<root, cwdParts, storage, last, jsh, env, commandHistory, uiState, terminal, commandsFromPath>>

\* the two lines the documentation gives as examples
lineTouchMyFolder ==
  <<"t", "o", "u", "c", "h", " ", "\"", "M", "y", " ", "F", "o", "l", "d", "e", "r", "/",
    "a", ".", "t", "x", "t", "\"">>
lineEchoEscaped == <<"e", "c", "h", "o", " ", "a", "\\", " ", "b">>
ExampleLines == {lineTouchMyFolder, lineEchoEscaped}

PreferredQuotes == {"\"", "'", "a"}

\* a completed word is quoted and put on the line, which is tokenized again
QuoteArg(v, preferredQuote) ==
  /\ pc = "prompt"
  /\ \E quoted \in {quoteArgIfNeeded(v, preferredQuote)} :
       last' = [op |-> "quoteArgIfNeeded", value |-> v, preferredQuote |-> preferredQuote,
                quoted |-> quoted, tokens |-> tokenizeCommandLine(quoted).tokens]
  /\ pc' = "quoted"
  /\ UNCHANGED <<root, cwdParts, storage, jsh, tokIn, tokOut, env, commandHistory, uiState, terminal, commandsFromPath>>

NextArg ==
  /\ pc = "quoted"
  /\ pc' = "prompt"
  /\ last' = NoLast
  /\ UNCHANGED <<root, cwdParts, storage, jsh, tokIn, tokOut, env, commandHistory, uiState, terminal, commandsFromPath>>

NextTok ==
  \/ \E src \in LinesUpTo(MaxLen) \cup ExampleLines : Tokenize(src)
  \/ NextLine
  \/ \E v \in LinesUpTo(MaxLen), preferredQuote \in PreferredQuotes : QuoteArg(v, preferredQuote)
  \/ NextArg

SpecTok == Init /\ [][NextTok]_vars

(***************************************************************************)
(* Command scripts: ./name.jsh read from the store and run line by line    *)
(* (jsShellHolder.js runJshScript).  The store holds /bin/hi.js, found     *)
(* through PATH, the programs /t.js and /w.js, and the script /s.jsh that  *)
(* the user saves; the env has the alias mk.                               *)
(***************************************************************************)
Sp == <<" ">>
Nl == <<"\n">>
wMkdir == <<"m", "k", "d", "i", "r">>
wRmdir == <<"r", "m", "d", "i", "r">>
nX == <<"x">>
nY == <<"y">>
nMk == <<"m", "k">>
nHi == <<"h", "i">>
lMkdirX == wMkdir \o Sp \o nX
lMkdirY == wMkdir \o Sp \o nY
lCdNowhere == <<"c", "d", " ", "n", "o", "w", "h", "e", "r", "e">>
lComment == <<"#", " ", "x">>
lSlashComment == <<" ", " ", "/", "/", "y">>
lExit == <<"e", "x", "i", "t">>
lRunT == <<".", "/", "t", ".", "j", "s">>
lRunW == <<".", "/", "w", ".", "j", "s">>

pBin == <<"/", "b", "i", "n">>
pHiJs == pBin \o Slash \o nHi \o ExtJs
pTJs == <<"/", "t", ".", "j", "s">>
pWJs == <<"/", "w", ".", "j", "s">>
pScript == <<"/", "s", ".", "j", "s", "h">>
invScript == DotSlash \o <<"s">> \o ExtJsh
invMissing == DotSlash \o <<"n">> \o ExtJsh

ScriptMkdirCdMkdir == Join(<<lMkdirX, lCdNowhere, lMkdirY>>, Nl)
ScriptComments == Join(<<lComment, Empty, lMkdirX \o <<"\r">>, lSlashComment, lMkdirY>>, Nl)
ScriptAlias == Join(<<lMkdirY, nMk, lMkdirX>>, Nl)
ScriptPathName == Join(<<lMkdirX, nHi, lMkdirY>>, Nl)
ScriptPrograms == Join(<<lRunT, lRunW, lMkdirY>>, Nl)
ScriptExit == Join(<<lMkdirY, lExit, lMkdirX>>, Nl)
ScriptRmdir == Join(<<wRmdir \o Sp \o nX, wRmdir \o Sp \o nY>>, Nl)

Scripts == {ScriptMkdirCdMkdir, ScriptComments, ScriptAlias, ScriptPathName,
            ScriptPrograms, ScriptExit, ScriptRmdir}

JshEnv == [PATH |-> <<pBin>>, ALIAS |-> [c \in {nMk} |-> lMkdirX]]

JshStore ==
  LET s0 == reset([root |-> createDefaultState.root, cwdParts |-> <<>>, storage |-> NoItem]).s
      s1 == mkdir(s0, SliceFrom(pBin, 1)).s
      s2 == writeFile(s1, pHiJs, jsOk).s
      s3 == writeFile(s2, pTJs, jsOk).s
  IN writeFile(s3, pWJs, jsThrow).s

\* the user saves the script (the editor and upload write through writeFile)
SaveScript(content) ==
  pc = "prompt" /\ Record("writeFile", <<pScript, content>>, OfCall(writeFile(Store, pScript, content)))

\* lines 486-499: runJshScript reads the script, or reports that it cannot;
\* the main loop has reset the state it shares with the key handler (576-580)
JshStart(invokedAs) ==
  /\ pc = "prompt"
  /\ \E h \in {RememberLine(Store, commandHistory, invokedAs)} :
       /\ commandHistory' = h.history
       /\ root' = h.s.root
       /\ cwdParts' = h.s.cwdParts
       /\ storage' = h.s.storage
       /\ \E rd \in {readFile(h.s, normalizePathFromCwd(getCwdPath(h.s), SliceFrom(invokedAs, 2)))} :
            IF rd.err # ""
            THEN /\ pc' = "result"
                 /\ last' = [op |-> "jsh", args |-> <<invokedAs>>, ok |-> FALSE,
                             errs |-> <<rd.err>>, pre |-> h.s]
                 /\ jsh' = [NoJsh EXCEPT !.invokedAs = invokedAs]
            ELSE /\ pc' = "jsh"
                 /\ last' = last
                 /\ jsh' = [NoJsh EXCEPT !.invokedAs = invokedAs, !.lines = SplitLines(rd.val)]
  /\ uiState' = NoState
  /\ terminal' = [terminal EXCEPT !.value = <<>>]
  /\ UNCHANGED <<tokIn, tokOut, env, commandsFromPath>>

\* lines 501-521: the next line of the script is read and dispatched
JshStep ==
  /\ pc = "jsh"
  /\ \E r \in {runJshStep(Store, env, jsh)} :
     /\ root' = r.s.root
     /\ cwdParts' = r.s.cwdParts
     /\ storage' = r.s.storage
     /\ jsh' = r.j
     /\ pc' = r.pc
  /\ UNCHANGED <<last, tokIn, tokOut, env, commandHistory, uiState, terminal, commandsFromPath>>

InitJsh ==
  /\ root = JshStore.root
  /\ cwdParts = JshStore.cwdParts
  /\ storage = JshStore.storage
  /\ pc = "prompt"
  /\ last = NoLast
  /\ jsh = NoJsh
  /\ tokIn = Empty
  /\ tokOut = NoTok
  /\ env = JshEnv
  /\ commandHistory = <<>>
  /\ uiState = NoState
  /\ terminal = NoTerminal
  /\ commandsFromPath = {}

NextJsh ==
  \/ \E content \in Scripts : SaveScript(content)
  \/ \E invokedAs \in {invScript, invMissing} : JshStart(invokedAs)
  \/ JshStep
  \/ Prompt

SpecJsh == InitJsh /\ [][NextJsh]_vars

(***************************************************************************)
(* Construction of the store from a persisted record: the record is drawn  *)
(* from the shapes localStorage can hold, the constructor loads it.        *)
(***************************************************************************)
TreeA == [NewFolder(Slash) EXCEPT !.folders = <<NewFolder(pA)>>]
TreeAB == [NewFolder(Slash) EXCEPT !.folders = <<[NewFolder(pA) EXCEPT !.folders = <<NewFolder(pB)>>]>>]
TreeFile == [NewFolder(Slash) EXCEPT !.files = <<NewFile(pA, cHello)>>]

PersistedRoots ==
  {JsonFolder(NewFolder(Slash)), JsonFolder(TreeA), JsonFolder(TreeAB), JsonFolder(TreeFile),
   JsonFile(NewFile(Slash, Empty)),
   [type |-> "dir", name |-> Slash, folders |-> <<>>, files |-> <<>>],
   [name |-> Slash]}

PersistedCwds ==
  {JsonArray(<<>>), JsonArray(<<pA>>), JsonArray(<<pA, pB>>), JsonArray(<<pB>>),
   JsonString(pA), JsonString(Empty)}

PersistedDocs ==
  {[root |-> r, cwdParts |-> c] : r \in PersistedRoots, c \in PersistedCwds}
    \cup {[root |-> r] : r \in PersistedRoots}
    \cup {[cwdParts |-> c] : c \in PersistedCwds}
    \cup {[json |-> "null"]}

PersistedItems ==
  {NoItem, EmptyItem, TextItem} \cup {[kind |-> "json", doc |-> d] : d \in PersistedDocs}

\* new VirtualFileSystem()
Construct ==
  /\ pc = "boot"
  /\ \E state \in {load(storage)} :
       /\ root' = state.root
       /\ cwdParts' = state.cwdParts
  /\ pc' = "constructed"
  /\ UNCHANGED <<storage, last, jsh, tokIn, tokOut, env, commandHistory, uiState, terminal, commandsFromPath>>

InitLoad ==
  /\ root = createDefaultState.root
  /\ cwdParts = createDefaultState.cwdParts
  /\ storage \in PersistedItems
  /\ pc = "boot"
  /\ last = NoLast
  /\ jsh = NoJsh
  /\ tokIn = Empty
  /\ tokOut = NoTok
  /\ env = DefaultEnv
  /\ commandHistory = <<>>
  /\ uiState = NoState
  /\ terminal = NoTerminal
  /\ commandsFromPath = {}

NextLoad == Construct

SpecLoad == InitLoad /\ [][NextLoad]_vars

(***************************************************************************)
(* Path resolution on its own: a cwd segment list and a path string are    *)
(* resolved, and the result is shown as the store shows its cwd.           *)
(***************************************************************************)
MaxPathLen == 5
PathChars == {"a", ".", "/"}

RECURSIVE PathsUpTo(_)
PathsUpTo(n) ==
  IF n = 0 THEN {Empty}
  ELSE LET shorter == PathsUpTo(n - 1) IN
       shorter \cup {Append(l, c) : l \in {x \in shorter : Len(x) = n - 1}, c \in PathChars}

CwdLists == {<<>>, <<pA>>, <<pB>>, <<pA, pB>>, <<pB, pA>>, <<pA, pA>>, <<DotDot>>, <<pA, Dot>>}

Resolve(cwd, path) ==
  /\ pc = "prompt"
  /\ \E result \in {normalizePathParts(cwd, path)} :
       last' = [op |-> "normalizePathParts", cwd |-> cwd, path |-> path, result |-> result,
                display |-> getCwdPath([cwdParts |-> result])]
  /\ pc' = "resolved"
  /\ UNCHANGED <<root, cwdParts, storage, jsh, tokIn, tokOut, env, commandHistory, uiState, terminal, commandsFromPath>>

NextPath ==
  /\ pc = "resolved"
  /\ pc' = "prompt"
  /\ last' = NoLast
  /\ UNCHANGED <<root, cwdParts, storage, jsh, tokIn, tokOut, env, commandHistory, uiState, terminal, commandsFromPath>>

NextResolve ==
  \/ \E cwd \in CwdLists, path \in PathsUpTo(MaxPathLen) : Resolve(cwd, path)
  \/ NextPath

SpecPath == Init /\ [][NextResolve]_vars

(***************************************************************************)
(* The interactive shell: the main loop reads a line, remembers it,        *)
(* expands aliases, offers the command to the registered handlers and      *)
(* falls back to the scripts on PATH.                                      *)
(***************************************************************************)
nLl == <<"l", "l">>
nS == <<"s">>
pTmp == <<"/", "t", "m", "p">>
pMkdirJs == pBin \o Slash \o wMkdir \o ExtJs
Digits == <<"1", "2", "3", "4", "5", "6", "7">>
ChainLen == Len(Digits)
nChain(k) == <<"n", Digits[k]>>

\* { ll: "ls -la", mk: "mkdir x" }
AliasLl == [c \in {nLl, nMk} |-> IF c = nLl THEN <<"l", "s", " ", "-", "l", "a">> ELSE lMkdirX]
\* { a: "b", b: "a", s: "s x" }
AliasCycle ==
  [c \in {pA, pB, nS} |-> IF c = pA THEN pB ELSE IF c = pB THEN pA ELSE nS \o Sp \o nX]
\* { n1: "n2", ..., n6: "n7", n7: "mkdir y" }
AliasChain ==
  [c \in {nChain(k) : k \in 1..ChainLen} |->
     IF c = nChain(ChainLen) THEN lMkdirY
     ELSE nChain((CHOOSE k \in 1..ChainLen : c = nChain(k)) + 1)]
\* { sm: "hi" }
nSm == <<"s", "m">>
AliasSm == [c \in {nSm} |-> nHi]
\* a folder that does not exist, a file, and two folders that hold hi.js
pNoDir == <<"/", "n", "o", "d", "i", "r">>
PathLong == <<pNoDir, pTJs, pTmp, pBin>>
pTmpHiJs == pTmp \o Slash \o nHi \o ExtJs
ShellEnvs ==
  {[PATH |-> <<pBin>>, ALIAS |-> a] : a \in {AliasLl, AliasCycle, AliasChain}}
    \cup {[PATH |-> PathLong, ALIAS |-> AliasSm]}

\* the store after start-up: /sys with the history and its limit, /bin with
\* two scripts, /tmp with a script, two programs and two command scripts in
\* the root
SetupStep(s, step) ==
  CASE step.op = "ensureDirPath" -> ensureDirPath(s, step.path)
    [] step.op = "writeJsonToVfs" -> writeJsonToVfs(s, step.path, step.content)
    [] step.op = "writeFile" -> writeFile(s, step.path, step.content).s
    [] step.op = "mkdir" -> mkdir(s, step.path).s

RECURSIVE Setup(_, _)
Setup(s, steps) ==
  IF steps = <<>> THEN s
  ELSE Only({Setup(next, Tail(steps)) : next \in {SetupStep(s, Head(steps))}})

pExitScript == <<"/", "e">> \o ExtJsh
invExit == DotSlash \o <<"e">> \o ExtJsh

ShellStore ==
  Only({Setup(s0,
          <<[op |-> "ensureDirPath", path |-> SYS_DIR],
            [op |-> "writeFile", path |-> SYS_HISTORY_LIMIT_PATH,
             content |-> <<Digits[historyLimit]>>],
            [op |-> "writeJsonToVfs", path |-> SYS_HISTORY_PATH,
             content |-> StringifyLines(<<>>)],
            [op |-> "writeFile", path |-> pMkdirJs, content |-> jsOk],
            [op |-> "mkdir", path |-> SliceFrom(pTmp, 1)],
            [op |-> "writeFile", path |-> pTmpHiJs, content |-> jsThrow],
            [op |-> "writeFile", path |-> pScript, content |-> ScriptComments],
            [op |-> "writeFile", path |-> pExitScript, content |-> ScriptExit]>>) :
          s0 \in {JshStore}})

tLlTmp == <<"l", "l", " ", "/", "t", "m", "p">>
tA == <<"a">>
tBX == <<"b", " ", "x">>
tN1 == <<"n", "1">>
tN3 == <<"n", "3">>
tS == <<"s">>
tHash == <<"#", " ", "x">>
tSlashes == <<"/", "/", "y">>
tIndentHash == <<" ", " ", "#", " ", "x">>
tBlank == <<" ", " ">>
tMkdirX == <<"m", "k", "d", "i", "r", " ", "x">>
tMkdirUpperY == <<"M", "K", "D", "I", "R", " ", "y">>
tRmdirX == <<"r", "m", "d", "i", "r", " ", "x">>
tLs == <<"l", "s">>
tLsUpper == <<"L", "S">>
tConfig == <<"c", "o", "n", "f", "i", "g">>
tConfigUpper == <<"C", "O", "N", "F", "I", "G">>
tBackupUpper == <<"B", "a", "c", "k", "u", "p">>
tRestoreUpper == <<"R", "E", "S", "T", "O", "R", "E">>
tRestore == <<"r", "e", "s", "t", "o", "r", "e">>
tBackup == <<"b", "a", "c", "k", "u", "p">>
tHi == <<"h", "i">>
tNope == <<"n", "o", "p", "e">>
tExit == <<"e", "x", "i", "t">>
tRunW == <<".", "/", "w", ".", "j", "s">>
tMk == <<"m", "k">>
tHiJs == nHi \o ExtJs
tSm == nSm
tRunN == DotSlash \o <<"n">> \o ExtJs
tRmHistory == <<"r", "m", " ">> \o SYS_HISTORY_PATH
TypedLines ==
  {tLlTmp, tA, tBX, tN1, tN3, tS, tHash, tSlashes, tIndentHash, tBlank, tMkdirX, tMkdirUpperY, tRmdirX, tLs, tLsUpper, tConfig, tConfigUpper, tBackupUpper, tRestoreUpper, tRestore, tBackup, tHi, tNope, tExit, tRunW, tMk,
   tHiJs, tSm, tRunN, tRmHistory}

IsJshInvocation(command) == StartsWith(command, DotSlash) /\ EndsWith(command, ExtJsh)

\* what last tells about a typed line
LineReport(input, rl, r, pre, r0) ==
  [op |-> "line", args |-> <<input>>, ok |-> r.ok, errs |-> r.errs, pre |-> pre,
   typed |-> rl.typed, command |-> rl.x.command, lineArgs |-> rl.x.args,
   substituted |-> rl.x.substituted, handled |-> r.handled,
   by |-> IF r.handled THEN r.by ELSE "none", dispatchedOn |-> TreeOf(r0),
   script |-> IF r.handled /\ r.by = "PATH" THEN r.script ELSE Empty,
   ranAs |-> IF r.handled /\ r.by = "PATH" THEN r.ranAs ELSE Empty,
   shouldContinue |-> r.shouldContinue,
   notFound |-> ~r.handled /\ rl.x.command # Empty,
   historyBefore |-> commandHistory]

\* mainLoop, one turn of the while loop for a line that does not start a
\* command script (lines 561-653)
TypeLine(input) ==
  /\ pc = "prompt"
  /\ \E rl \in {ReadLine(env, input)} :
       /\ ~IsJshInvocation(rl.x.command)
       /\ \E h \in {RememberLine(Store, commandHistory, rl.trimmedInput)} :
            /\ commandHistory' = h.history
            /\ \E r \in {IF rl.trimmedInput = Empty THEN NotHandled(h.s)
                          ELSE ResolveTyped(h.s, env, rl.x)} :
                 /\ root' = r.s.root
                 /\ cwdParts' = r.s.cwdParts
                 /\ storage' = r.s.storage
                 /\ last' = LineReport(input, rl, r, Store, h.s)
                 /\ pc' = IF r.shouldContinue THEN "result" ELSE "exited"
  /\ uiState' = NoState
  /\ terminal' = [terminal EXCEPT !.value = <<>>]
  /\ UNCHANGED <<jsh, tokIn, tokOut, env, commandsFromPath>>

RECURSIVE collectCommandsFromPathOn(_, _)
\* jsShellHolder.js lines 377-398: the .js files of the directories of PATH
\* that start with '/', without the extension; refreshCommandsFromPath adds
\* them to the command names at start-up (line 411)
collectCommandsFromPathOn(s, dirs) ==
  IF dirs = <<>> THEN {}
  ELSE Only({(IF StartsWith(Head(dirs), Slash) /\ listing.err = ""
              THEN {SubSeq(listing.files[k], 1, Len(listing.files[k]) - 3) :
                      k \in {j \in 1..Len(listing.files) :
                               /\ EndsWith(ToLowerCase(listing.files[j]), ExtJs)
                               /\ Len(listing.files[j]) > 3}}
              ELSE {})
             \cup collectCommandsFromPathOn(s, Tail(dirs)) :
               listing \in {list(s, Head(dirs))}})
collectCommandsFromPath(s, e) == collectCommandsFromPathOn(s, e.PATH)

InitShell ==
  /\ \E s \in {ShellStore} :
       /\ root = s.root
       /\ cwdParts = s.cwdParts
       /\ storage = s.storage
  /\ pc = "prompt"
  /\ last = NoLast
  /\ jsh = NoJsh
  /\ tokIn = Empty
  /\ tokOut = NoTok
  /\ env \in ShellEnvs
  /\ commandHistory = <<>>
  /\ uiState = NoState
  /\ terminal = NoTerminal
  /\ commandsFromPath = collectCommandsFromPath(ShellStore, env)

NextShell ==
  \/ \E input \in TypedLines : TypeLine(input)
  \/ \E invokedAs \in {invScript, invExit} : JshStart(invokedAs)
  \/ JshStep
  \/ Prompt

SpecShell == InitShell /\ [][NextShell]_vars

(***************************************************************************)
(* jsShellExtended.js and jsShell.js: the keys of a prompt.  A key event   *)
(* goes to the key handler; the prompt then puts a returned string into    *)
(* the input field, does nothing more when the handler returned true, and  *)
(* lets the browser act on the key otherwise.                              *)
(***************************************************************************)
\* jsShellHolder.js lines 337-375: the command names of the registered modules
commands ==
  <<<<"h", "e", "l", "p">>,
    <<"c", "l", "s">>,
    <<"e", "x", "i", "t">>,
    <<"d", "a", "t", "e">>,
    <<"m", "k", "d", "i", "r">>,
    <<"l", "s">>,
    <<"f", "i", "n", "d">>,
    <<"g", "r", "e", "p">>,
    <<"r", "m", "d", "i", "r">>,
    <<"c", "d">>,
    <<"p", "w", "d">>,
    <<"c", "a", "t">>,
    <<"t", "o", "u", "c", "h">>,
    <<"r", "m">>,
    <<"p", "r", "i", "n", "t">>,
    <<"c", "o", "p", "y">>,
    <<"d", "e", "l", "a", "y">>,
    <<"m", "v">>,
    <<"i", "n", "i", "t">>,
    <<"b", "a", "c", "k", "u", "p">>,
    <<"r", "e", "s", "t", "o", "r", "e">>,
    <<"d", "o", "w", "n", "l", "o", "a", "d">>,
    <<"u", "p", "l", "o", "a", "d">>,
    <<"c", "o", "n", "f", "i", "g">>>>

Letters == <<"a", "b", "c", "d", "e", "f", "g", "h", "i", "j", "k", "l", "m",
             "n", "o", "p", "q", "r", "s", "t", "u", "v", "w", "x", "y", "z">>
Rank(ch) == CHOOSE k \in 1..Len(Letters) : Letters[k] = ch

RECURSIVE Before(_, _)
\* a.localeCompare(b) < 0, for words of lower-case letters
Before(a, b) ==
  IF a = <<>> THEN b # <<>>
  ELSE IF b = <<>> THEN FALSE
  ELSE IF Head(a) = Head(b) THEN Before(Tail(a), Tail(b))
  ELSE Rank(Head(a)) < Rank(Head(b))

RECURSIVE SortWords(_)
\* Array.from(set).sort((a, b) => a.localeCompare(b))
SortWords(words) ==
  IF words = {} THEN <<>>
  ELSE \* the first word is bound once
       Only({<<first>> \o SortWords(words \ {first}) :
               first \in {CHOOSE x \in words : \A y \in words \ {x} : Before(x, y)}})

RECURSIVE ScriptNamesOn(_, _)
\* lines 31-44: the .js files of the directories, without the extension; a
\* directory that cannot be listed adds nothing
ScriptNamesOn(s, dirs) ==
  IF dirs = <<>> THEN {}
  ELSE Only({{SubSeq(files[k], 1, Len(files[k]) - 3) :
                k \in {j \in 1..Len(files) : EndsWith(files[j], ExtJs)}} :
               files \in {list(s, Head(dirs)).files}})
       \cup ScriptNamesOn(s, Tail(dirs))

\* lines 20-48; the env read from /sys/env.json is the env the holder wrote
\* there (jsShellHolder.js line 224), and the list cached for a second is the
\* list of the store while no PATH directory changes
getPathScriptCommands(s, e) == ScriptNamesOn(s, e.PATH)

KeyResult(kind, value, st, goodbye) ==
  [kind |-> kind, value |-> value, state |-> st, goodbye |-> goodbye]

\* m.name + (m.isFolder ? '/' : '')
completedName(m) == IF m.isFolder THEN m.name \o Slash ELSE m.name

\* the input that proposes the item at index (from 0) of a session
ProposalOf(session, index) ==
  IF session.type = "command" THEN session.items[index + 1] \o Sp
  ELSE session.beforeWord
       \o quoteArgIfNeeded(session.dirPart \o completedName(session.items[index + 1]),
                           IF session.quoteChar # "" THEN session.quoteChar ELSE "\"")
       \o session.afterWord

\* mutant of cycleCompletionSession: the index moves forward whatever the direction
cycleCompletionSessionForward(st, currentInput, direction) ==
  LET session == st.completionSession IN
  IF ~session.active \/ Len(session.items) <= 1 \/ currentInput # session.lastInput
  THEN [cycled |-> FALSE, value |-> <<>>, state |-> st]
  ELSE LET index == (session.index + 1 + Len(session.items)) % Len(session.items) IN
       [cycled |-> TRUE, value |-> ProposalOf(session, index),
        state |-> [st EXCEPT !.completionSession =
                     [session EXCEPT !.index = index, !.lastInput = ProposalOf(session, index)]]]

\* mutant of cycleCompletionSession: the session does not remember the new input
cycleCompletionSessionForgets(st, currentInput, direction) ==
  LET session == st.completionSession IN
  IF ~session.active \/ Len(session.items) <= 1 \/ currentInput # session.lastInput
  THEN [cycled |-> FALSE, value |-> <<>>, state |-> st]
  ELSE LET len == Len(session.items)
           delta == IF direction = -1 THEN -1 ELSE 1
           index == (session.index + delta + len) % len
       IN [cycled |-> TRUE, value |-> ProposalOf(session, index),
           state |-> [st EXCEPT !.completionSession = [session EXCEPT !.index = index]]]

\* lines 273-347
cycleCompletionSession(st, currentInput, direction) ==
  LET session == st.completionSession IN
  IF ~session.active \/ Len(session.items) <= 1 \/ currentInput # session.lastInput
  THEN [cycled |-> FALSE, value |-> <<>>, state |-> st]
  ELSE LET len == Len(session.items)
           delta == IF direction = -1 THEN -1 ELSE 1
           index == (session.index + delta + len) % len
       IN [cycled |-> TRUE, value |-> ProposalOf(session, index),
           state |-> [st EXCEPT !.completionSession =
                        [session EXCEPT !.index = index, !.lastInput = ProposalOf(session, index)]]]

\* what a start of a session makes of the matches: one match completes, more
\* open a session on the first, none leaves the input as it is
StartOn(st, session, unchanged) ==
  IF Len(session.items) = 0
  THEN KeyResult("string", unchanged, [st EXCEPT !.completionSession = NoSession], FALSE)
  ELSE IF Len(session.items) = 1
  THEN KeyResult("string", ProposalOf(session, 0),
                 [st EXCEPT !.completionSession = NoSession], FALSE)
  ELSE KeyResult("string", ProposalOf(session, 0),
                 [st EXCEPT !.completionSession =
                    [session EXCEPT !.active = TRUE, !.lastInput = ProposalOf(session, 0)]],
                 FALSE)

\* mutant of startCommandCompletionSession: a single match opens a session too
startCommandCompletionSessionKeeps(s, e, st, currentWord) ==
  LET allCommands == SortWords({commands[k] : k \in 1..Len(commands)}
                                \cup commandsFromPath
                                \cup getPathScriptCommands(s, e))
      matches == SelectSeq(allCommands, LAMBDA cmd : StartsWith(cmd, currentWord))
  IN
    IF matches = <<>>
    THEN KeyResult("string", currentWord, [st EXCEPT !.completionSession = NoSession], FALSE)
    ELSE KeyResult("string", matches[1] \o Sp,
                   [st EXCEPT !.completionSession =
                      [NoSession EXCEPT !.active = TRUE, !.type = "command",
                                        !.items = matches, !.lastInput = matches[1] \o Sp]],
                   FALSE)

\* lines 355-408
startCommandCompletionSession(s, e, st, currentWord) ==
  Only({StartOn(st, [NoSession EXCEPT !.type = "command",
                       !.items = SelectSeq(allCommands, LAMBDA cmd : StartsWith(cmd, currentWord))],
                currentWord) :
          allCommands \in {SortWords({commands[k] : k \in 1..Len(commands)}
                                       \cup commandsFromPath
                                       \cup getPathScriptCommands(s, e))}})

\* currentWord.lastIndexOf('/') + 1
AfterLastSlash(word) ==
  IF Includes(word, "/") THEN CHOOSE k \in 1..Len(word) :
                                word[k] = "/" /\ \A j \in (k + 1)..Len(word) : word[j] # "/"
  ELSE 0

\* lines 416-505; w tells where the current word is in the input and how it
\* is quoted
startPathCompletionSession(s, st, currentInput, currentWord, w) ==
  LET dirPart == SubSeq(currentWord, 1, AfterLastSlash(currentWord))
      namePart == SliceFrom(currentWord, AfterLastSlash(currentWord))
      listTarget == IF dirPart = <<>> THEN Dot
                    ELSE IF Len(dirPart) = 1 THEN Slash
                    ELSE SubSeq(dirPart, 1, Len(dirPart) - 1)
  IN Only({IF listing.err # ""
           THEN KeyResult("string", currentInput,
                          [st EXCEPT !.completionSession = NoSession], FALSE)
           ELSE StartOn(st,
                  [NoSession EXCEPT
                     !.type = "path",
                     !.items = SelectSeq(
                        [k \in 1..Len(listing.folders) |->
                           [name |-> listing.folders[k], isFolder |-> TRUE]]
                        \o [k \in 1..Len(listing.files) |->
                              [name |-> listing.files[k], isFolder |-> FALSE]],
                        LAMBDA c : StartsWith(c.name, namePart)),
                     !.beforeWord = SubSeq(currentInput, 1, w.rawStart),
                     !.afterWord = SliceFrom(currentInput, w.rawEnd),
                     !.dirPart = dirPart,
                     !.quoteChar = w.quoteChar],
                  currentInput) :
             listing \in {list(s, listTarget)}})

\* lines 129-141: where the current word is in the input
CurrentWordOf(currentInput, tokenized) ==
  IF tokenized.endsWithSpace \/ tokenized.tokens = <<>>
  THEN [value |-> <<>>,
        rawStart |-> IF tokenized.endsWithSpace THEN Len(currentInput) ELSE 0,
        rawEnd |-> Len(currentInput), quoteChar |-> ""]
  ELSE LET lastToken == tokenized.tokens[Len(tokenized.tokens)] IN
       [value |-> lastToken.value, rawStart |-> lastToken.rawStart,
        rawEnd |-> lastToken.rawEnd, quoteChar |-> lastToken.quoteChar]

wHello == <<"h", "e", "l", "l", "o">>
helloNames == <<<<"w", "o", "r", "l", "d">>, <<"u", "s", "e", "r">>,
                <<"a", "d", "m", "i", "n">>, <<"g", "u", "e", "s", "t">>>>

\* lines 124-193: a completion request that does not cycle
completeAfresh(s, e, st, currentInput) ==
    LET tokenized == tokenizeCommandLine(currentInput)
        nWords == Len(tokenized.tokens) + (IF tokenized.endsWithSpace THEN 1 ELSE 0)
        w == CurrentWordOf(currentInput, tokenized)
    IN IF nWords <= 1
       THEN IF StartsWith(w.value, DotSlash)
            THEN startPathCompletionSession(s, st, currentInput, w.value, w)
            ELSE startCommandCompletionSession(s, e, st, w.value)
       ELSE IF nWords = 2 /\ tokenized.tokens[1].value = wHello
       THEN LET nameMatches ==
                  SelectSeq(helloNames, LAMBDA name : StartsWith(name, ToLowerCase(w.value)))
            IN IF Len(nameMatches) = 1
               THEN KeyResult("string", wHello \o Sp \o nameMatches[1], st, FALSE)
               ELSE KeyResult("string", currentInput, st, FALSE)
       ELSE startPathCompletionSession(s, st, currentInput, w.value, w)

\* mutant of completeOnTab: a request cycles whatever the input is
completeOnTabAnyInput(s, e, st, ev, currentInput) ==
  LET session == st.completionSession
      direction == IF ev.altKey \/ ev.shiftKey THEN -1 ELSE 1
      cycled == cycleCompletionSession(st, session.lastInput, direction)
  IN IF cycled.cycled THEN KeyResult("string", cycled.value, cycled.state, FALSE)
     ELSE completeAfresh(s, e, st, currentInput)

\* lines 112-194
completeOnTab(s, e, st, ev, currentInput) ==
  LET direction == IF ev.altKey \/ ev.shiftKey THEN -1 ELSE 1
      cycled == cycleCompletionSession(st, currentInput, direction)
  IN IF cycled.cycled THEN KeyResult("string", cycled.value, cycled.state, FALSE)
     ELSE completeAfresh(s, e, st, currentInput)

\* lines 60-261: the universal key handler; kind tells whether it returned a
\* string, true or false
onKeyHandler(s, e, history, st, ev, currentInput) ==
  IF ev.ctrlKey /\ ev.code = "KeyD" /\ Trim(currentInput) = Empty
  THEN KeyResult("true", <<>>, st, TRUE)
  ELSE IF ev.code = "Escape"
  THEN IF st.completionSession.active
       THEN KeyResult("true", <<>>, [st EXCEPT !.completionSession = NoSession], FALSE)
       ELSE KeyResult("string", <<>>, [st EXCEPT !.completionSession = NoSession], FALSE)
  ELSE IF ev.code = "ArrowUp"
  THEN IF Len(history) > 0
       THEN LET historyIndex == IF st.historyIndex + 1 < Len(history) - 1
                                THEN st.historyIndex + 1 ELSE Len(history) - 1
                command == history[Len(history) - historyIndex]
            IN KeyResult("string", IF command # Empty THEN command ELSE currentInput,
                         [st EXCEPT !.historyIndex = historyIndex], FALSE)
       ELSE KeyResult("true", <<>>, st, FALSE)
  ELSE IF ev.code = "ArrowDown"
  THEN IF st.historyIndex > -1
       THEN LET historyIndex == IF st.historyIndex - 1 > -1 THEN st.historyIndex - 1 ELSE -1
                command == history[Len(history) - historyIndex]
            IN IF historyIndex = -1
               THEN KeyResult("string", <<>>, [st EXCEPT !.historyIndex = historyIndex], FALSE)
               ELSE KeyResult("string", IF command # Empty THEN command ELSE currentInput,
                              [st EXCEPT !.historyIndex = historyIndex], FALSE)
       ELSE KeyResult("true", <<>>, st, FALSE)
  ELSE IF ev.code = "Tab" THEN completeOnTab(s, e, st, ev, currentInput)
  ELSE IF Len(ev.key) = 1
  THEN KeyResult("false", <<>>, [st EXCEPT !.completionSession = NoSession], FALSE)
  ELSE KeyResult("false", <<>>, st, FALSE)

\* what the browser does with a key the handler left to it, the caret being
\* at the end of the field
DefaultBehaviour(value, ev) ==
  IF Len(ev.key) = 1 /\ ~ev.ctrlKey THEN value \o ev.key
  ELSE IF ev.code = "Backspace" /\ value # <<>> THEN SubSeq(value, 1, Len(value) - 1)
  ELSE value

\* the key events the model presses
KeyOf(code, key) ==
  [code |-> code, key |-> key, ctrlKey |-> FALSE, shiftKey |-> FALSE, altKey |-> FALSE]
KeyChars == {"c", "l"}
kTab == KeyOf("Tab", <<"T", "a", "b">>)
kShiftTab == [kTab EXCEPT !.shiftKey = TRUE]
kBackspace == KeyOf("Backspace", <<"B", "a", "c", "k", "s", "p", "a", "c", "e">>)
kArrowUp == KeyOf("ArrowUp", <<"A", "r", "r", "o", "w", "U", "p">>)
kArrowDown == KeyOf("ArrowDown", <<"A", "r", "r", "o", "w", "D", "o", "w", "n">>)
kEscape == KeyOf("Escape", <<"E", "s", "c", "a", "p", "e">>)
kCtrlD == [KeyOf("KeyD", <<"d">>) EXCEPT !.ctrlKey = TRUE]
kChar(ch) == KeyOf("Key", <<ch>>)
Keys ==
  {kChar(ch) : ch \in KeyChars}
    \cup {kTab, kShiftTab, kBackspace, kArrowUp, kArrowDown, kEscape, kCtrlD}

\* the number of keys, Enter aside, the user presses in a session
MaxKeys == 5

\* jsShell.js _prompt, inputField.onkeydown (lines 1246-1300): the key goes
\* to the handler and the field takes what the handler or the browser makes
\* of it
KeyDown(ev) ==
  /\ pc = "prompt"
  /\ terminal.keys < MaxKeys
  /\ \E r \in {onKeyHandler(Store, env, commandHistory, uiState, ev, terminal.value)} :
       /\ uiState' = r.state
       /\ terminal' = [value |-> IF r.kind = "string" THEN r.value
                                 ELSE IF r.kind = "true" THEN terminal.value
                                 ELSE DefaultBehaviour(terminal.value, ev),
                       goodbye |-> terminal.goodbye \/ r.goodbye,
                       keys |-> terminal.keys + 1]
  /\ last' = [NoLast EXCEPT !.op = "key", !.args = <<ev>>]
  /\ UNCHANGED <<root, cwdParts, storage, pc, jsh, tokIn, tokOut, env, commandHistory,
                 commandsFromPath>>

\* Enter: the handler leaves the key alone, onkeyup (lines 1302-1362)
\* resolves shell.input with the field's value and the main loop takes its turn
Enter == \E input \in {terminal.value} : TypeLine(input)

InitKeys == InitShell /\ env.PATH = PathLong

NextKeys ==
  \/ \E ev \in Keys : KeyDown(ev)
  \/ Enter
  \/ Prompt

SpecKeys == InitKeys /\ [][NextKeys]_vars

(***************************************************************************)
(* Completion requests on arbitrary input lines: the prompt holds a line   *)
(* of up to MaxTabLen characters, quotes and backslashes among them, as    *)
(* typing or pasting leaves it, and Tab or Shift+Tab is pressed.           *)
(***************************************************************************)
TabChars == {" ", "x", "t", "\"", "\\", "/"}
MaxTabLen == 4

RECURSIVE TabLinesUpTo(_)
TabLinesUpTo(n) ==
  IF n = 0 THEN {Empty}
  ELSE LET shorter == TabLinesUpTo(n - 1) IN
       shorter \cup {Append(l, c) : l \in {x \in shorter : Len(x) = n - 1}, c \in TabChars}

\* the store of the shell with two more files: one whose name needs quoting,
\* and a script in a PATH directory
pXY == <<"/", "x", " ", "y">>
pTmpXJs == pTmp \o <<"/", "x">> \o ExtJs
TabStore ==
  Only({Setup(s0, <<[op |-> "writeFile", path |-> pXY, content |-> jsOk],
                    [op |-> "writeFile", path |-> pTmpXJs, content |-> jsOk]>>) :
          s0 \in {ShellStore}})
TabEnv == [PATH |-> PathLong, ALIAS |-> AliasSm]
tRmX == <<"r", "m", " ">> \o pTmpXJs

InitTab ==
  /\ \E s \in {TabStore} :
       /\ root = s.root
       /\ cwdParts = s.cwdParts
       /\ storage = s.storage
  /\ pc = "prompt"
  /\ last = NoLast
  /\ jsh = NoJsh
  /\ tokIn = Empty
  /\ tokOut = NoTok
  /\ env = TabEnv
  /\ commandHistory = <<>>
  /\ uiState = NoState
  /\ terminal = NoTerminal
  /\ commandsFromPath = collectCommandsFromPath(TabStore, TabEnv)

\* text is typed or pasted into the empty input field
TypeText(line) ==
  /\ pc = "prompt"
  /\ terminal.value = <<>>
  /\ terminal.keys = 0
  /\ line # <<>>
  /\ terminal' = [terminal EXCEPT !.value = line]
  /\ UNCHANGED <<root, cwdParts, storage, pc, last, jsh, tokIn, tokOut, env, commandHistory,
                 uiState, commandsFromPath>>

\* the first line of the session removes a script from a PATH directory
RemoveScript ==
  /\ terminal.value = <<>>
  /\ terminal.keys = 0
  /\ commandHistory = <<>>
  /\ TypeLine(tRmX)

NextTab ==
  \/ \E line \in TabLinesUpTo(MaxTabLen) : TypeText(line)
  \/ \E ev \in {kTab, kShiftTab} : KeyDown(ev)
  \/ RemoveScript
  \/ Prompt

SpecTab == InitTab /\ [][NextTab]_vars

(***************************************************************************)
(* Views of the tree used to state the properties: the set of segment      *)
(* lists that name a folder, and the set of (segment list, content) pairs  *)
(* of the files.                                                           *)
(***************************************************************************)
RECURSIVE FolderPathsOf(_)
FolderPathsOf(folder) ==
  {<<>>} \cup UNION {{<<folder.folders[i].name>> \o p : p \in FolderPathsOf(folder.folders[i])}
                      : i \in 1..Len(folder.folders)}

RECURSIVE FilesOf(_)
FilesOf(folder) ==
  {<<(<<folder.files[i].name>>), folder.files[i].content>> : i \in 1..Len(folder.files)}
  \cup UNION {{<<(<<folder.folders[i].name>> \o f[1]), f[2]>> : f \in FilesOf(folder.folders[i])}
               : i \in 1..Len(folder.folders)}

FilePathsOf(folder) == {f[1] : f \in FilesOf(folder)}

NamesDistinct(nodes) ==
  \A i, j \in 1..Len(nodes) : nodes[i].name = nodes[j].name => i = j

NameValid(name) == name # Empty /\ name # Undefined /\ ~Includes(name, "/")

RECURSIVE FolderWellFormed(_)
FolderWellFormed(folder) ==
  /\ NamesDistinct(folder.files)
  /\ NamesDistinct(folder.folders)
  /\ \A i \in 1..Len(folder.files) : NameValid(folder.files[i].name)
  /\ \A i \in 1..Len(folder.folders) :
       NameValid(folder.folders[i].name) /\ FolderWellFormed(folder.folders[i])

Returned == pc = "result"

(***************************************************************************)
(* C3: in every reachable state the cwd segment list resolves from the     *)
(* root to an existing folder.                                             *)
(***************************************************************************)
C3_CwdResolves == cwdParts \in FolderPathsOf(root)

(***************************************************************************)
(* C4: in every reachable state, within each folder the file names are     *)
(* pairwise distinct and the folder names are pairwise distinct, no name   *)
(* contains '/', and no node has an empty or missing name.                 *)
(***************************************************************************)
C4_TreeWellFormed == FolderWellFormed(root)

(***************************************************************************)
(* C5: whenever the shell waits for the next input line (a handler has     *)
(* returned, or the prompt is shown), the persisted record is the          *)
(* serialization of the in-memory state, and loading it gives back the     *)
(* same tree and cwd.                                                      *)
(***************************************************************************)
C5_PersistedIsCurrent ==
  pc \in {"prompt", "result"} =>
    /\ storage = Stringify([root |-> root, cwdParts |-> cwdParts])
    /\ load(storage) = [root |-> root, cwdParts |-> cwdParts]

\* a mv that changed the tree has returned
C5_Witness == Returned /\ last.op = "mv" /\ last.ok /\ root # last.pre.root

(***************************************************************************)
(* C7: after writeFile(p, c) succeeds, readFile(p) from the same cwd       *)
(* returns c, for absolute and relative p, also when the call overwrote an *)
(* existing file, and the parent folder holds exactly one file with that   *)
(* name.                                                                   *)
(***************************************************************************)
C7_WriteThenRead ==
  (Returned /\ last.op = "writeFile" /\ last.ok) =>
    LET path == last.args[1]
        parts == normalizePathParts(cwdParts, path)
        parent == resolveFolder(root, PopRest(parts))
    IN /\ cwdParts = last.pre.cwdParts
       /\ readFile(Store, path).err = ""
       /\ readFile(Store, path).val = last.args[2]
       /\ parent.found
       /\ Cardinality({i \in 1..Len(parent.node.files) :
                         parent.node.files[i].name = PopName(parts)}) = 1

\* a writeFile through a relative path has replaced a different content
C7_Witness ==
  /\ Returned /\ last.op = "writeFile" /\ last.ok
  /\ last.args[1][1] # "/"
  /\ readFile(last.pre, last.args[1]).err = ""
  /\ readFile(last.pre, last.args[1]).val # last.args[2]

(***************************************************************************)
(* C8.  What the store held in the cwd before a call.                      *)
(***************************************************************************)
CwdHoldsFolder(st, name) == Append(st.cwdParts, name) \in FolderPathsOf(st.root)
CwdHoldsFile(st, name) ==
  st.cwdParts \in FolderPathsOf(st.root) /\ Append(st.cwdParts, name) \in FilePathsOf(st.root)
HasChildren(st, path) ==
  \E q \in FolderPathsOf(st.root) \cup FilePathsOf(st.root) : IsPrefix(path, q) /\ q # path

\* mkdir on a name the cwd holds fails with this kind and leaves the tree alone
MkdirExistingFails(kind(_)) ==
  (Returned /\ last.op = "mkdir"
     /\ (CwdHoldsFolder(last.pre, last.args[1]) \/ CwdHoldsFile(last.pre, last.args[1]))) =>
    ~last.ok /\ last.errs = <<kind(last.args[1])>> /\ root = last.pre.root

\* mkdir("a"), mkdir("a"), rmdir("a"), rmdir("a"): a successful mkdir leaves the
\* folder in the cwd; rmdir of an empty folder of the cwd succeeds and removes
\* exactly that folder; rmdir of a name that is no folder of the cwd fails with
\* NotFound
MkdirRmdirSequence ==
  /\ (Returned /\ last.op = "mkdir" /\ last.ok) =>
       /\ CwdHoldsFolder(Store, last.args[1])
       /\ FolderPathsOf(root) = FolderPathsOf(last.pre.root) \cup {Append(cwdParts, last.args[1])}
       /\ FilesOf(root) = FilesOf(last.pre.root)
  /\ (Returned /\ last.op = "rmdir" /\ Len(last.args) = 1
        /\ last.pre.cwdParts \in FolderPathsOf(last.pre.root)) =>
       LET name == last.args[1]
           path == Append(last.pre.cwdParts, name)
       IN /\ (CwdHoldsFolder(last.pre, name) /\ ~HasChildren(last.pre, path)) =>
               /\ last.ok
               /\ FolderPathsOf(root) = FolderPathsOf(last.pre.root) \ {path}
               /\ FilesOf(root) = FilesOf(last.pre.root)
               /\ ~CwdHoldsFolder(Store, name)
          /\ ~CwdHoldsFolder(last.pre, name) =>
               ~last.ok /\ last.errs = <<"NotFound">> /\ root = last.pre.root

KindAlreadyExists(name) == "AlreadyExists"
KindByName(name) == IF HasSeparator(name) THEN "InvalidName" ELSE "AlreadyExists"

(***************************************************************************)
(* C8 as claimed: mkdir(name) fails with AlreadyExists whenever the cwd    *)
(* already holds a file or a folder called name, the tree is unchanged,    *)
(* and the mkdir, mkdir, rmdir, rmdir sequence behaves as described.       *)
(***************************************************************************)
C8_Original == MkdirExistingFails(KindAlreadyExists) /\ MkdirRmdirSequence

(***************************************************************************)
(* C8 amended: mkdir(name) fails whenever the cwd already holds a file or  *)
(* a folder called name and leaves the tree unchanged; the failure is      *)
(* AlreadyExists for a name without '/' and '\', and InvalidName for a     *)
(* name with one (the name is checked first); the sequence part holds as   *)
(* claimed.                                                                *)
(***************************************************************************)
C8_MkdirRmdir == MkdirExistingFails(KindByName) /\ MkdirRmdirSequence

\* mkdir has failed with AlreadyExists on the name of a file of the cwd
C8_Witness ==
  /\ Returned /\ last.op = "mkdir" /\ last.errs = <<"AlreadyExists">>
  /\ CwdHoldsFile(last.pre, last.args[1])

(***************************************************************************)
(* C9: rmdir never removes a folder that has a file or a subfolder: on     *)
(* such a folder it fails with NotEmpty and leaves the tree unchanged, and *)
(* whatever a rmdir call removes, every file stays and every folder that   *)
(* went away had no children.                                              *)
(***************************************************************************)
C9_RmdirKeepsNonEmpty ==
  (Returned /\ last.op = "rmdir") =>
    /\ FilesOf(root) = FilesOf(last.pre.root)
    /\ FolderPathsOf(root) \subseteq FolderPathsOf(last.pre.root)
    /\ \A path \in FolderPathsOf(last.pre.root) \ FolderPathsOf(root) :
         ~HasChildren(last.pre, path)
    /\ \A i \in 1..Len(last.args) :
         (CwdHoldsFolder(last.pre, last.args[i])
            /\ HasChildren(last.pre, Append(last.pre.cwdParts, last.args[i]))) =>
           /\ ~last.ok
           /\ \E j \in 1..Len(last.errs) : last.errs[j] = "NotEmpty"
           /\ CwdHoldsFolder(Store, last.args[i])
    /\ (Len(last.args) = 1 /\ CwdHoldsFolder(last.pre, last.args[1])
          /\ HasChildren(last.pre, Append(last.pre.cwdParts, last.args[1]))) =>
         last.errs = <<"NotEmpty">> /\ root = last.pre.root

\* rmdir has refused a folder of the cwd that holds a file
C9_Witness ==
  /\ Returned /\ last.op = "rmdir" /\ last.errs = <<"NotEmpty">>
  /\ \E f \in FilePathsOf(last.pre.root) :
       IsPrefix(Append(last.pre.cwdParts, last.args[1]), f)

(***************************************************************************)
(* C10: changeDirectory(path) succeeds exactly when the resolved segment   *)
(* list names an existing folder; when it names a file or nothing it fails *)
(* with NotFound and the cwd is unchanged; on success the cwd is the       *)
(* resolved segment list, which has no '.', '..' or empty segment.         *)
(***************************************************************************)
C10_ChangeDirectory ==
  (Returned /\ last.op = "cd") =>
    LET path == IF last.args = <<>> THEN Slash ELSE last.args[1]
        parts == normalizePathParts(last.pre.cwdParts, path)
    IN /\ last.ok <=> parts \in FolderPathsOf(last.pre.root)
       /\ ~last.ok => /\ last.errs = <<"NotFound">>
                      /\ cwdParts = last.pre.cwdParts
                      /\ root = last.pre.root
       /\ last.ok => /\ cwdParts = parts
                     /\ \A i \in 1..Len(cwdParts) : cwdParts[i] \notin {Dot, DotDot, Empty}
                     /\ root = last.pre.root

\* changeDirectory has failed on a path that names a file
C10_Witness ==
  /\ Returned /\ last.op = "cd" /\ ~last.ok /\ last.args # <<>>
  /\ normalizePathParts(last.pre.cwdParts, last.args[1]) \in FilePathsOf(last.pre.root)

(***************************************************************************)
(* C6: an unterminated quote is reported without failing: for every line   *)
(* that ends inside a quoted span that was opened and not closed, the      *)
(* tokenizer returns unterminatedQuote = TRUE and the characters after the *)
(* opening quote are in the last token; for every line whose quotes are    *)
(* all closed it returns unterminatedQuote = FALSE.                        *)
(***************************************************************************)
EndsInsideQuote(src) == ScanLoop(src, TokStart).quote # ""

C6_UnterminatedQuoteReported ==
  pc = "tokenized" =>
    LET atEnd == ScanLoop(tokIn, TokStart) IN
    /\ tokOut.unterminatedQuote <=> EndsInsideQuote(tokIn)
    /\ EndsInsideQuote(tokIn) =>
         /\ tokOut.tokens # <<>>
         /\ tokOut.tokens[Len(tokOut.tokens)].rawEnd = Len(tokIn)
         /\ IsPrefix(atEnd.buf, tokOut.tokens[Len(tokOut.tokens)].value)

(***************************************************************************)
(* C1: when a .jsh script runs, its non-blank, non-comment lines are       *)
(* dispatched strictly in file order; as soon as one line fails (unhandled *)
(* or ok = FALSE) no later line of the script is dispatched, and what the  *)
(* earlier lines did stays in place: the script mkdir x, cd nowhere,       *)
(* mkdir y leaves x created and never creates y.                           *)
(***************************************************************************)
IsCommandLine(raw) ==
  /\ \E k \in 1..Len(raw) : ~isWhitespace(raw[k])
  /\ LET first == CHOOSE k \in 1..Len(raw) :
                    ~isWhitespace(raw[k]) /\ \A m \in 1..(k - 1) : isWhitespace(raw[m])
     IN raw[first] # "#" /\ ~StartsWith(SliceFrom(raw, first - 1), <<"/", "/">>)

\* the lines of the running script the loop is done with
JshLinesDone ==
  IF jsh.stoppedAt # 0 THEN jsh.stoppedAt
  ELSE IF pc = "exited" THEN jsh.i + 1
  ELSE jsh.i

C1_JshInOrderStopsAtFailure ==
  LET ran == jsh.ran
      n == Len(ran)
  IN /\ \A k \in 1..(n - 1) : ran[k].line < ran[k + 1].line
     /\ {ran[k].line : k \in 1..n} = {l \in 1..JshLinesDone : IsCommandLine(jsh.lines[l])}
     /\ \A k \in 1..(n - 1) : ran[k].ok /\ ran[k].handled
     /\ \A k \in 1..(n - 1) : ran[k + 1].pre = ran[k].post
     /\ n > 0 => TreeOf(Store) = ran[n].post
     /\ (n > 0 /\ (~ran[n].ok \/ ~ran[n].handled)) =>
          pc = "result" /\ jsh.stoppedAt = ran[n].line
     /\ pc = "jsh" => jsh.stoppedAt = 0
     /\ (pc = "result" /\ n > 0 /\ jsh.lines = <<lMkdirX, lCdNowhere, lMkdirY>>
           /\ {<<nX>>, <<nY>>} \cap FolderPathsOf(ran[1].pre.root) = {}) =>
          /\ jsh.stoppedAt = 2
          /\ <<nX>> \in FolderPathsOf(root)
          /\ <<nY>> \notin FolderPathsOf(root)

\* the script mkdir x, cd nowhere, mkdir y has stopped at its second line
C1_Witness ==
  /\ pc = "result" /\ jsh.lines = <<lMkdirX, lCdNowhere, lMkdirY>>
  /\ jsh.stoppedAt = 2 /\ Len(jsh.ran) = 2
  /\ <<nX>> \in FolderPathsOf(root)
  /\ <<nX>> \notin FolderPathsOf(jsh.ran[1].pre.root)

(***************************************************************************)
(* C2: inside a .jsh script every line is dispatched strictly: a line      *)
(* whose command is a key of env.ALIAS is not alias-expanded and a line    *)
(* whose command is only the bare name of a script in a PATH folder is not *)
(* executed; when no built-in handler and no ./file.js rule handles such a *)
(* line, it is reported as not found and the script is aborted there.      *)
(***************************************************************************)
BuiltinNames == {lExit, wMkdir, wRmdir, <<"c", "d">>, <<"t", "o", "u", "c", "h">>,
                 <<"r", "m">>, <<"c", "o", "p", "y">>, <<"m", "v">>}
IsFileRule(command) == StartsWith(command, DotSlash) /\ EndsWith(command, ExtJs)
IsPathScriptName(tree, command) ==
  /\ ~Includes(command, "/")
  /\ \E k \in 1..Len(env.PATH) :
       (SelectSeq(Split(env.PATH[k], "/"), LAMBDA p : p # Empty) \o <<command \o ExtJs>>)
         \in FilePathsOf(tree.root)

C2_JshLinesAreStrict ==
  \A k \in 1..Len(jsh.ran) :
    LET line == jsh.ran[k] IN
    (/\ line.command \in DOMAIN env.ALIAS \/ IsPathScriptName(line.pre, line.command)
     /\ ToLowerCase(line.command) \notin BuiltinNames
     /\ ~IsFileRule(line.command)) =>
      /\ ~line.handled /\ ~line.ok /\ line.error = "CommandNotFound"
      /\ line.post = line.pre
      /\ k = Len(jsh.ran)
      /\ pc = "result" /\ jsh.stoppedAt = line.line

\* a script has been aborted at a line whose command is an alias, after an
\* earlier line ran
C2_Witness ==
  /\ pc = "result" /\ Len(jsh.ran) = 2
  /\ jsh.ran[2].command \in DOMAIN env.ALIAS
  /\ jsh.stoppedAt = 2
  /\ jsh.ran[1].post # jsh.ran[1].pre

(***************************************************************************)
(* C11: loading yields a fresh state (root folder without children, empty  *)
(* cwd) when the persisted record is missing, is not parseable or has a    *)
(* root whose type is not the folder tag; otherwise it yields the          *)
(* persisted tree, with the cwd of the record when that is a list and the  *)
(* empty cwd otherwise.                                                    *)
(***************************************************************************)
Constructed == pc = "constructed"
RecordUnusable ==
  \/ storage.kind # "json"
  \/ "root" \notin DOMAIN storage.doc
  \/ "type" \notin DOMAIN storage.doc.root
  \/ storage.doc.root.type # "folder"
RecordCwdIsList ==
  /\ "cwdParts" \in DOMAIN storage.doc
  /\ storage.doc.cwdParts.json = "array"

C11_LoadFreshOrPersisted ==
  Constructed =>
    IF RecordUnusable
    THEN root = NewFolder(Slash) /\ cwdParts = <<>>
    ELSE /\ JsonFolder(root) = storage.doc.root
         /\ cwdParts = IF RecordCwdIsList THEN storage.doc.cwdParts.items ELSE <<>>

\* a record that parses and has a root, but of another type, with a cwd list
C11_Witness ==
  /\ Constructed
  /\ storage.kind = "json"
  /\ "root" \in DOMAIN storage.doc
  /\ "type" \in DOMAIN storage.doc.root
  /\ storage.doc.root.type = "dir"
  /\ RecordCwdIsList
  /\ storage.doc.cwdParts.items = <<pA>>
  /\ root = NewFolder(Slash)
  /\ cwdParts = <<>>

(***************************************************************************)
(* C12: for every cwd segment list and every path string, resolution       *)
(* returns a segment list and never underflows: a '..' removes the last    *)
(* accumulated segment when there is one and is ignored otherwise, so any  *)
(* number of '..' from the root gives the root, and no '.' or '..' segment *)
(* of the result comes from the path.                                      *)
(***************************************************************************)
Resolved == pc = "resolved"
IsSegment(p) == p # Empty /\ ~Includes(p, "/")
ButLast(parts) == IF parts = <<>> THEN <<>> ELSE SubSeq(parts, 1, Len(parts) - 1)
\* the result is a prefix of the cwd followed by segments that are names
KeptThenNames(cwd, result) ==
  \E k \in 0..Len(cwd) :
    /\ k <= Len(result)
    /\ SubSeq(result, 1, k) = SubSeq(cwd, 1, k)
    /\ \A n \in (k + 1)..Len(result) : IsSegment(result[n]) /\ result[n] \notin {Dot, DotDot}
OnlyDotDots(path) ==
  /\ path # Empty
  /\ \A n \in 1..Len(Split(path, "/")) : Split(path, "/")[n] \in {Empty, DotDot}

C12_ResolveNeverUnderflows ==
  Resolved =>
    /\ KeptThenNames(IF last.path # Empty /\ last.path[1] = "/" THEN <<>> ELSE last.cwd,
                     last.result)
    /\ (last.cwd = <<>> /\ OnlyDotDots(last.path)) => last.result = <<>>
    /\ last.path # Empty =>
         normalizePathParts(last.cwd, last.path \o Slash \o DotDot) = ButLast(last.result)

C12_Witness ==
  /\ Resolved
  /\ last.cwd = <<>>
  /\ last.path = DotDot \o Slash \o DotDot
  /\ last.result = <<>>

(***************************************************************************)
(* C13: resolution is idempotent through the display form: for every cwd   *)
(* and every absolute path p, resolving the display path of resolve(cwd,   *)
(* p) from any cwd gives resolve(cwd, p) again, and the display path of    *)
(* the empty segment list is '/'.                                          *)
(***************************************************************************)
C13_DisplayRoundTrip ==
  Resolved =>
    /\ (last.path # Empty /\ last.path[1] = "/") =>
         \A c \in CwdLists : normalizePathParts(c, last.display) = last.result
    /\ last.result = <<>> => last.display = Slash

C13_Witness ==
  /\ Resolved
  /\ last.cwd = <<pB>>
  /\ last.path = <<"/", "a", "/", ".", "/">>
  /\ last.result = <<pA>>
  /\ last.display = <<"/", "a">>

(***************************************************************************)
(* C14: quoted and escaped whitespace stays inside one token: whitespace   *)
(* between a matching pair of ' or " does not split the token and the      *)
(* quotes are not part of its value; a backslash makes the next character  *)
(* literal, inside or outside quotes, without ending the token.  The line  *)
(* touch "My Folder/a.txt" has the one argument My Folder/a.txt, and the   *)
(* line echo a\ b has the one argument a b.                                *)
(***************************************************************************)
Tokenized == pc = "tokenized"
Without(s, k) == SubSeq(s, 1, k - 1) \o SubSeq(s, k + 1, Len(s))
Inner(s) == SubSeq(s, 2, Len(s) - 1)
\* q w q, where w holds neither q nor a backslash
IsQuotedWord(s) ==
  /\ Len(s) >= 2
  /\ s[1] \in {"\"", "'"}
  /\ s[Len(s)] = s[1]
  /\ \A k \in 2..(Len(s) - 1) : s[k] \notin {s[1], "\\"}
\* one backslash at k, followed by a character, among plain characters
IsEscapeAt(s, k) ==
  /\ k >= 1
  /\ k < Len(s)
  /\ s[k] = "\\"
  /\ \A n \in 1..Len(s) : n \notin {k, k + 1} => s[n] = "a"
IsQuotedEscapeAt(s, k) ==
  /\ Len(s) >= 2
  /\ s[1] \in {"\"", "'"}
  /\ s[Len(s)] = s[1]
  /\ k + 1 < Len(s)
  /\ IsEscapeAt(Inner(s), k - 1)
OneToken(value) == Len(tokOut.tokens) = 1 /\ tokOut.tokens[1].value = value

C14_QuotedAndEscapedStayInToken ==
  Tokenized =>
    /\ IsQuotedWord(tokIn) => OneToken(Inner(tokIn))
    /\ \A k \in 1..Len(tokIn) :
         /\ IsEscapeAt(tokIn, k) => OneToken(Without(tokIn, k))
         /\ IsQuotedEscapeAt(tokIn, k) => OneToken(Without(Inner(tokIn), k - 1))
    /\ tokIn = lineTouchMyFolder =>
         /\ tokOut.command = <<"t", "o", "u", "c", "h">>
         /\ tokOut.args = <<SubSeq(lineTouchMyFolder, 8, 22)>>
    /\ tokIn = lineEchoEscaped =>
         /\ tokOut.command = <<"e", "c", "h", "o">>
         /\ tokOut.args = <<<<"a", " ", "b">>>>

C14_Witness ==
  /\ Tokenized
  /\ tokIn = lineTouchMyFolder
  /\ Len(tokOut.tokens) = 2
  /\ tokOut.tokens[2].value = SubSeq(lineTouchMyFolder, 8, 22)
  /\ Includes(tokOut.tokens[2].value, " ")

(***************************************************************************)
(* C15: quoteArgIfNeeded round-trips through the tokenizer: for every      *)
(* non-empty value v and either preferred quote, tokenizing the quoted     *)
(* form gives exactly one token whose value is v, and v is returned        *)
(* unchanged when it holds no whitespace, quote or backslash.              *)
(***************************************************************************)
Quoted == pc = "quoted"
IsPlain(v) == \A k \in 1..Len(v) : v[k] \notin {" ", "\"", "'", "\\"}

C15_QuoteRoundTrip ==
  (Quoted /\ last.value # Empty) =>
    /\ Len(last.tokens) = 1
    /\ last.tokens[1].value = last.value
    /\ IsPlain(last.value) => last.quoted = last.value

C15_Witness ==
  /\ Quoted
  /\ last.value = <<"a", "\\", "'", " ">>
  /\ last.preferredQuote = "'"
  /\ last.quoted = <<"'", "a", "\\", "\\", "\\", "'", " ", "'">>
  /\ Len(last.tokens) = 1
  /\ last.tokens[1].value = last.value

(***************************************************************************)
(* C16: in interactive dispatch, when the command token is a key of        *)
(* Env.ALIAS, the first token of the expansion becomes the command and     *)
(* the other tokens of the expansion are placed, in order, before the      *)
(* original arguments: with ALIAS = {ll: "ls -la"}, the line ll /tmp       *)
(* invokes the built-in ls with the arguments -la and /tmp.                *)
(***************************************************************************)
LineDone == pc \in {"result", "exited"} /\ last.op = "line"
AliasTokens(name) == parseCommandLine(Trim(env.ALIAS[name]))
RECURSIVE ExpansionArgs(_, _)
\* the arguments after the substitutions of names, one after the other
ExpansionArgs(names, args) ==
  IF names = <<>> THEN args
  ELSE ExpansionArgs(Tail(names), AliasTokens(Head(names)).args \o args)

C16_AliasExpansion ==
  LineDone =>
    /\ (last.typed \in DOMAIN env.ALIAS /\ Trim(env.ALIAS[last.typed]) # Empty) =>
         /\ last.substituted # <<>>
         /\ last.substituted[1] = last.typed
    /\ \A k \in 1..Len(last.substituted) :
         AliasTokens(last.substituted[k]).command =
           IF k < Len(last.substituted) THEN last.substituted[k + 1] ELSE last.command
    /\ last.lineArgs =
         ExpansionArgs(last.substituted, parseCommandLine(Trim(last.args[1])).args)
    /\ (env.ALIAS = AliasLl /\ last.args[1] = tLlTmp) =>
         /\ last.by = "ls"
         /\ last.lineArgs = <<<<"-", "l", "a">>, pTmp>>

C16_Witness ==
  /\ LineDone
  /\ env.ALIAS = AliasLl
  /\ last.args[1] = tLlTmp
  /\ last.substituted = <<nLl>>
  /\ last.handled
  /\ last.by = "ls"
  /\ last.lineArgs = <<<<"-", "l", "a">>, pTmp>>

(***************************************************************************)
(* C17: alias expansion terminates for every ALIAS mapping, cyclic ones    *)
(* such as {a: "b", b: "a"} included: it makes at most 5 substitution      *)
(* steps, never substitutes the same command name twice, raises no error,  *)
(* and the dispatch of the line then completes as handled or as command    *)
(* not found.                                                              *)
(***************************************************************************)
C17_AliasExpansionTerminates ==
  (pc \in {"result", "exited"} /\ last.op = "line" /\ last.typed # Empty) =>
    /\ Len(last.substituted) <= 5
    /\ \A j, k \in 1..Len(last.substituted) :
         last.substituted[j] = last.substituted[k] => j = k
    /\ last.handled \/ last.notFound

C17_Witness ==
  /\ LineDone
  /\ env.ALIAS = AliasCycle
  /\ last.args[1] = tA
  /\ last.substituted = <<pA, pB>>
  /\ last.command = pA
  /\ last.notFound

(***************************************************************************)
(* C18: a comment line is a no-op in dispatch, for interactive lines as    *)
(* for the lines of a command script: when the first non-blank characters  *)
(* of the line are # or //, no built-in handler is invoked, no script is   *)
(* run, and the line is neither reported as not found nor counted as a     *)
(* failure.                                                                *)
(***************************************************************************)
IsCommentLine(raw) ==
  LET trimmed == Trim(raw) IN
  StartsWith(trimmed, <<"#">>) \/ StartsWith(trimmed, <<"/", "/">>)

C18_CommentLinesAreNoOps ==
  /\ (LineDone /\ IsCommentLine(last.args[1])) =>
       /\ ~last.handled
       /\ last.by = "none"
       /\ ~last.notFound
       /\ last.ok
  /\ \A k \in 1..Len(jsh.ran) : ~IsCommentLine(jsh.lines[jsh.ran[k].line])

(***************************************************************************)
(* C19: every registered built-in handler recognizes its command name      *)
(* whatever the letter case: the name of a built-in (ls, cd, config,       *)
(* backup, restore, ...) typed in any letter case is handled by that       *)
(* built-in.                                                               *)
(***************************************************************************)
RegisteredNames ==
  {<<"exit", lExit>>, <<"mkdir", wMkdir>>, <<"ls", <<"l", "s">>>>, <<"rmdir", wRmdir>>,
   <<"cd", <<"c", "d">>>>, <<"touch", <<"t", "o", "u", "c", "h">>>>, <<"rm", <<"r", "m">>>>,
   <<"copy", <<"c", "o", "p", "y">>>>, <<"mv", <<"m", "v">>>>,
   <<"backup", <<"b", "a", "c", "k", "u", "p">>>>,
   <<"restore", <<"r", "e", "s", "t", "o", "r", "e">>>>,
   <<"config", <<"c", "o", "n", "f", "i", "g">>>>}

C19_BuiltinsIgnoreCase ==
  LineDone =>
    \A n \in RegisteredNames :
      ToLowerCase(last.command) = n[2] => (last.handled /\ last.by = n[1])

(***************************************************************************)
(* C20: the PATH fallback runs only when no built-in handler and no        *)
(* explicit ./file rule handled the command: a bare command name that a    *)
(* built-in recognizes is never resolved through PATH, even when a script  *)
(* file of that name exists in a PATH directory.                           *)
(***************************************************************************)
HandlersTake(tree, command, args) ==
  \E k \in 1..Len(commandModules) :
    CallHandler(commandModules[k], tree @@ [storage |-> NoItem], command, args).handled
ScriptOnPath(tree, command) ==
  resolveScriptOnPath(tree @@ [storage |-> NoItem], env, command).found

C20_PathFallbackIsLast ==
  LineDone =>
    /\ last.by = "PATH" => ~HandlersTake(last.dispatchedOn, last.command, last.lineArgs)
    /\ HandlersTake(last.dispatchedOn, last.command, last.lineArgs) =>
         (last.handled /\ last.by \in {n[1] : n \in RegisteredNames} \cup {"executeScriptFile"})

C20_Witness ==
  /\ LineDone
  /\ last.args[1] = tMkdirX
  /\ ScriptOnPath(last.dispatchedOn, last.command)
  /\ last.handled
  /\ last.by = "mkdir"

(***************************************************************************)
(* C21: the PATH fallback searches the directories of Env.PATH in list     *)
(* order and runs the script of the first directory that holds the file    *)
(* of the command; directories that are missing or cannot be listed are    *)
(* skipped without an error, and when no directory holds the file the      *)
(* command is reported as not found.                                       *)
(***************************************************************************)
\* the places of env.PATH whose directory holds a file of that name
HoldersOf(tree, fileName) ==
  {k \in 1..Len(env.PATH) : Append(PathParts(env.PATH[k]), fileName) \in FilePathsOf(tree.root)}

\* a line that reached the PATH fallback
FellBack ==
  /\ LineDone
  /\ last.command # Empty
  /\ ~HandlersTake(last.dispatchedOn, last.command, last.lineArgs)

FirstHolderRuns(fileName) ==
  LET holders == HoldersOf(last.dispatchedOn, fileName) IN
  IF holders = {} THEN last.notFound /\ last.by = "none"
  ELSE /\ last.handled
       /\ last.by = "PATH"
       /\ \E k \in holders :
            /\ \A j \in holders : k <= j
            /\ last.script = env.PATH[k] \o Slash \o fileName

\* as stated: the file looked for is always <command>.js
C21_FileIsCommandDotJs == FellBack => FirstHolderRuns(last.command \o ExtJs)

\* as the code has it: a command that already ends in .js names the file itself
C21_PathSearchInOrder ==
  FellBack =>
    FirstHolderRuns(IF EndsWith(last.command, ExtJs) THEN last.command
                    ELSE last.command \o ExtJs)

C21_Witness ==
  /\ LineDone
  /\ env.PATH = PathLong
  /\ last.args[1] = tHi
  /\ HoldersOf(last.dispatchedOn, tHiJs) = {3, 4}
  /\ last.by = "PATH"
  /\ last.script = pTmpHiJs
  /\ ~last.ok

(***************************************************************************)
(* C22: a script run through the PATH fallback receives, as its invocation *)
(* name, the command token the user typed before alias expansion: with the *)
(* alias sm for hi and hi.js on PATH, typing sm runs the script with the   *)
(* invocation name sm.                                                     *)
(***************************************************************************)
C22_ScriptSeesTypedToken ==
  (LineDone /\ last.by = "PATH" /\ last.ranAs # Empty) => last.ranAs = last.typed

(***************************************************************************)
(* C23: an explicit script invocation ./name.js whose file cannot be read  *)
(* is still handled: the error is reported, no PATH fallback is attempted  *)
(* and no command-not-found message is produced; in strict mode the line   *)
(* counts as a failure (ok = false).                                       *)
(***************************************************************************)
\* the line names a program by ./name.js and the cwd holds no such file
RunsUnreadableFile ==
  /\ LineDone
  /\ StartsWith(last.command, DotSlash)
  /\ EndsWith(last.command, ExtJs)
  /\ last.dispatchedOn.cwdParts \o PathParts(SliceFrom(last.command, 2))
       \notin FilePathsOf(last.dispatchedOn.root)

C23_UnreadableScriptIsHandled ==
  RunsUnreadableFile =>
    /\ last.handled
    /\ last.by = "executeScriptFile"
    /\ ~last.ok
    /\ last.errs # <<>>
    /\ last.script = Empty
    /\ ~last.notFound
    /\ \E strict \in {dispatchStrict(last.dispatchedOn @@ [storage |-> NoItem], env,
                                     last.command, last.lineArgs)} :
         /\ strict.handled
         /\ ~strict.ok
         /\ strict.error = "ExecutionFailed"

C23_Witness ==
  /\ RunsUnreadableFile
  /\ last.args[1] = tRunN
  /\ last.handled
  /\ ~last.ok
  /\ ~last.notFound

(***************************************************************************)
(* C24: a dispatch result with shouldContinue = false ends the session     *)
(* loop: after the exit built-in is dispatched, typed at the prompt or run *)
(* as a line of a command script, no later line of that script runs and    *)
(* no further input line is read or dispatched.                            *)
(***************************************************************************)
\* the k-th line the script has run is the exit built-in
RanExit(k) == jsh.ran[k].handled /\ ToLowerCase(jsh.ran[k].command) = lExit

ExitIsTheLastDispatch ==
  /\ \A k \in 1..Len(jsh.ran) : RanExit(k) => (k = Len(jsh.ran) /\ pc = "exited")
  /\ (LineDone /\ (last.by = "exit" \/ ~last.shouldContinue)) => pc = "exited"

C24_ExitEndsSession == []ExitIsTheLastDispatch /\ [][pc # "exited"]_vars

C24_Witness ==
  /\ pc = "exited"
  /\ jsh.invokedAs = invExit
  /\ jsh.ran # <<>>
  /\ RanExit(Len(jsh.ran))
  /\ jsh.ran[Len(jsh.ran)].line < Len(jsh.lines)

(***************************************************************************)
(* C25: pressing Ctrl+D while the input line is empty exits the session:   *)
(* afterwards the shell accepts and dispatches no further input line.      *)
(***************************************************************************)
\* a step of the main loop that takes a line from the prompt
TakesLine == pc = "prompt" /\ pc' # "prompt"

C25_CtrlDExits == [][terminal.goodbye => ~TakesLine]_vars

(***************************************************************************)
(* C26: no store error or handler exception ends the session: when a       *)
(* built-in handler or a hosted script throws or reports a failure during  *)
(* interactive dispatch, the failure is reported and the loop goes on to   *)
(* accept the next input line; the loop ends only through a result with    *)
(* shouldContinue = false.                                                 *)
(***************************************************************************)
FailureIsReportedAndSurvived ==
  LineDone =>
    /\ (pc = "exited") <=> ~last.shouldContinue
    /\ (~last.ok \/ last.notFound) => pc = "result"
    /\ (last.handled /\ ~last.ok) => last.errs # <<>>

C26_FailuresDoNotEndSession ==
  []FailureIsReportedAndSurvived /\ [][pc = "result" => pc' = "prompt"]_vars

C26_Witness ==
  /\ LineDone
  /\ last.args[1] = tHi
  /\ last.by = "PATH"
  /\ ~last.ok
  /\ last.errs = <<"Thrown">>
  /\ pc = "result"

(***************************************************************************)
(* C27: command-position completion with exactly one candidate whose name  *)
(* starts with the current word replaces the input by that name followed   *)
(* by one space and leaves no completion session; with no matching         *)
(* candidate it leaves no completion session either.                       *)
(***************************************************************************)
\* a step in which the prompt handles the key of that code
KeyStep(code) ==
  /\ pc = "prompt"
  /\ terminal'.keys = terminal.keys + 1
  /\ last'.op = "key"
  /\ last'.args[1].code = code
\* the last key the prompt handled
LastKey(code) == pc = "prompt" /\ last.op = "key" /\ last.args[1].code = code

\* the input is one word, or none, and does not name a file by ./
AtCommandPosition(value) ==
  /\ \A k \in 1..Len(TrimStart(value)) : ~isWhitespace(TrimStart(value)[k])
  /\ ~StartsWith(TrimStart(value), DotSlash)

\* the names of the registered commands and of the scripts in the PATH directories
Candidates ==
  {commands[k] : k \in 1..Len(commands)}
    \cup {SubSeq(f[Len(f)], 1, Len(f[Len(f)]) - 3) :
            f \in {g \in FilePathsOf(root) :
                     /\ EndsWith(g[Len(g)], ExtJs)
                     /\ \E k \in 1..Len(env.PATH) :
                          SubSeq(g, 1, Len(g) - 1) = PathParts(env.PATH[k])}}
MatchesOf(word) == {c \in Candidates : StartsWith(c, word)}

C27_SingleCandidateCompletes ==
  [][(KeyStep("Tab") /\ AtCommandPosition(terminal.value)) =>
       LET matches == MatchesOf(TrimStart(terminal.value)) IN
       /\ Cardinality(matches) = 1 =>
            /\ terminal'.value = Only(matches) \o Sp
            /\ ~uiState'.completionSession.active
       /\ matches = {} => ~uiState'.completionSession.active]_vars

C27_Witness ==
  /\ LastKey("Tab")
  /\ terminal.value = <<"l", "s", " ">>
  /\ terminal.keys = Len(<<"l", "Tab">>)
  /\ ~uiState.completionSession.active

(***************************************************************************)
(* C28: with n >= 2 matching candidates, the first completion request      *)
(* proposes the alphabetically first match and opens a session; each       *)
(* further completion request made while the input still equals the last   *)
(* proposal moves the index by +1 (or by -1 with Shift or Alt) modulo n    *)
(* and proposes that candidate, so n forward requests return to the first  *)
(* proposal and a forward request followed by a backward one returns to    *)
(* the same proposal.                                                      *)
(***************************************************************************)
\* the session that the step leaves proposes its current item in the input
Proposes(session, value) ==
  /\ session.active
  /\ session.lastInput = value
  /\ session.type = "command" => value = session.items[session.index + 1] \o Sp
  /\ session.type = "path" =>
       /\ StartsWith(value, session.beforeWord)
       /\ EndsWith(value, session.afterWord)

\* the request continues the session: the input is what was proposed last
ContinuesSession ==
  /\ uiState.completionSession.active
  /\ terminal.value = uiState.completionSession.lastInput

OpensOnFirstMatch ==
  (KeyStep("Tab") /\ AtCommandPosition(terminal.value)
     /\ Cardinality(MatchesOf(TrimStart(terminal.value))) >= 2) =>
    LET session == uiState'.completionSession IN
    /\ Proposes(session, terminal'.value)
    /\ session.type = "command"
    /\ session.index = 0
    /\ {session.items[k] : k \in 1..Len(session.items)} = MatchesOf(TrimStart(terminal.value))
    /\ \A j, k \in 1..Len(session.items) : j < k => Before(session.items[j], session.items[k])

MovesByOne ==
  (KeyStep("Tab") /\ ContinuesSession) =>
    LET before == uiState.completionSession
        after == uiState'.completionSession
        n == Len(before.items)
        back == last'.args[1].shiftKey \/ last'.args[1].altKey
    IN /\ n >= 2
       /\ after.items = before.items
       /\ after.index = IF back THEN (IF before.index = 0 THEN n - 1 ELSE before.index - 1)
                        ELSE (IF before.index = n - 1 THEN 0 ELSE before.index + 1)
       /\ Proposes(after, terminal'.value)

OtherKeyStep ==
  /\ pc = "prompt"
  /\ \/ pc' # "prompt"
     \/ terminal'.keys = terminal.keys + 1 /\ last'.args[1].code # "Tab"

C29_OtherKeysDiscardSession ==
  [][OtherKeyStep => ~uiState'.completionSession.active]_vars

(***************************************************************************)
(* C30: a completion request whose current input differs from the value    *)
(* produced by the previous proposal never advances the index of the       *)
(* existing session and never proposes one of its candidates by cycling:   *)
(* it computes candidates afresh from the current input.                   *)
(***************************************************************************)
\* a session is stored and the input is not what it proposed last
InputLeftProposal ==
  /\ uiState.completionSession.active
  /\ terminal.value # uiState.completionSession.lastInput

\* what the request makes of the input when no session is stored
FreshlyCompleted ==
  completeAfresh(Store, env, [uiState EXCEPT !.completionSession = NoSession], terminal.value)

C30_ChangedInputStartsAfresh ==
  [][(KeyStep("Tab") /\ InputLeftProposal) =>
       /\ uiState'.completionSession.active => uiState'.completionSession.index = 0
       /\ uiState' = FreshlyCompleted.state
       /\ terminal'.value = FreshlyCompleted.value]_vars

\* c, Tab, Backspace, Tab: the session on the five commands is stored with
\* "cat " proposed, the input is "cat", and the request completes cat alone
C30_Witness ==
  /\ LastKey("Tab")
  /\ terminal.keys = Len(<<"c", "Tab", "Backspace", "Tab">>)
  /\ terminal.value = <<"c", "a", "t", " ">>
  /\ ~uiState.completionSession.active

(***************************************************************************)
(* C31: after every accepted input line the history holds at most          *)
(* historyLimit entries in submission order, the entries an append removes *)
(* are the oldest ones, blank lines are never recorded, and the persisted  *)
(* /sys/history.json equals the history in memory.                         *)
(***************************************************************************)
IsSuffix(x, y) == Len(x) <= Len(y) /\ x = SubSeq(y, Len(y) - Len(x) + 1, Len(y))
SubmittedLine == Trim(last.args[1])
\* the line was pushed: it is not blank and differs from the newest entry
LineRecorded ==
  /\ SubmittedLine # Empty
  /\ (last.historyBefore = <<>> \/ last.historyBefore[Len(last.historyBefore)] # SubmittedLine)
HistoryInOrder ==
  /\ Len(commandHistory) <= historyLimit
  /\ IF LineRecorded
     THEN /\ commandHistory # <<>>
          /\ commandHistory[Len(commandHistory)] = SubmittedLine
          /\ IsSuffix(SubSeq(commandHistory, 1, Len(commandHistory) - 1), last.historyBefore)
     ELSE commandHistory = last.historyBefore
PersistedIn(tree) ==
  readFile([root |-> tree.root, cwdParts |-> tree.cwdParts, storage |-> storage], SYS_HISTORY_PATH)
PersistedEquals(tree) ==
  \E rd \in {PersistedIn(tree)} : rd.err = "" /\ rd.val = StringifyLines(commandHistory)
TouchDone == Returned /\ last.op = "touch"
\* the segment lists the operands of the last command name
OperandPaths ==
  {normalizePathParts(last.pre.cwdParts, last.args[k]) : k \in 1..Len(last.args)}
\* the path of the file an operand names, as FilesOf gives it
FileNamedBy(parts) == PopRest(parts) \o <<PopName(parts)>>
ParentExists(parts) == PopRest(parts) \in FolderPathsOf(last.pre.root)
TouchCreates ==
  {FileNamedBy(parts) : parts \in {q \in OperandPaths : ParentExists(q)}}
    \ FilePathsOf(last.pre.root)
MvDone == Returned /\ last.op = "mv"
MvSource == normalizePathParts(last.pre.cwdParts, last.args[1])
MvDest == normalizePathParts(last.pre.cwdParts, last.args[2])
MvSourceIsFile == MvSource # <<>> /\ MvSource \in FilePathsOf(last.pre.root)
MvSourceIsFolder == MvSource # <<>> /\ ~MvSourceIsFile /\ MvSource \in FolderPathsOf(last.pre.root)
\* where the source is to go: into the destination when that is a folder,
\* under the name of the source, and to the destination path otherwise
MvTarget ==
  IF MvDest \in FolderPathsOf(last.pre.root)
  THEN Append(MvDest, MvSource[Len(MvSource)])
  ELSE MvDest
MvTargetTaken ==
  MvTarget \in FilePathsOf(last.pre.root) \/ MvTarget \in FolderPathsOf(last.pre.root)
StoreUnchanged ==
  root = last.pre.root /\ cwdParts = last.pre.cwdParts /\ storage = last.pre.storage
C33_MvNeverOverwrites ==
  MvDone /\ (MvSourceIsFile \/ MvSourceIsFolder) =>
    /\ MvTarget = MvSource => last.ok /\ last.errs = <<>> /\ StoreUnchanged
    /\ MvTarget # MvSource /\ MvTargetTaken => ~last.ok /\ StoreUnchanged
\* mv a b with files a and b of different content: refused, both still there
C33_Witness ==
  /\ MvDone
  /\ last.args = <<pA, pB>>
  /\ FilesOf(last.pre.root) = {<<(<<pA>>), cHello>>, <<(<<pB>>), cWorld>>}
  /\ ~last.ok
  /\ FilesOf(root) = FilesOf(last.pre.root)
\* mv a . in the folder that holds a: the same node, nothing to do
C33_WitnessSameNode ==
  /\ MvDone
  /\ last.args = <<pA, Dot>>
  /\ MvSourceIsFolder
  /\ MvTarget = MvSource
  /\ last.ok

(***************************************************************************)
(* C34: mv preserves the tree.  After a mv of a file or folder every other *)
(* node is still at its path, and the moved node with its whole subtree    *)
(* and all file contents is reachable from the root: at the destination    *)
(* when mv reports success, at the source when it reports failure; this    *)
(* includes a destination inside the moved folder.                         *)
(***************************************************************************)
\* the path a node of the moved subtree has after the move
Moved(path) == MvTarget \o SubSeq(path, Len(MvSource) + 1, Len(path))
FolderPathAfterMv(path) ==
  IF MvSourceIsFolder /\ IsPrefix(MvSource, path) THEN Moved(path) ELSE path
FilePathAfterMv(path) ==
  IF MvSourceIsFolder /\ IsPrefix(MvSource, path) THEN Moved(path)
  ELSE IF MvSourceIsFile /\ path = MvSource THEN MvTarget
  ELSE path
C34_MvPreservesTree ==
  MvDone /\ (MvSourceIsFile \/ MvSourceIsFolder) =>
    IF last.ok
    THEN /\ FolderPathsOf(root) = {FolderPathAfterMv(p) : p \in FolderPathsOf(last.pre.root)}
         /\ FilesOf(root) = {<<FilePathAfterMv(f[1]), f[2]>> : f \in FilesOf(last.pre.root)}
         /\ NodeCount(root) = NodeCount(last.pre.root)
    ELSE root = last.pre.root

(***************************************************************************)
(* C35: a store operation that fails (changeDirectory, mkdir, rmdir,       *)
(* writeFile, readFile, unlink, list) leaves the tree and the cwd as they  *)
(* were and writes nothing to the persisted record; writeFile to a path    *)
(* whose parent folder does not exist fails and creates no folder.         *)
(***************************************************************************)
StoreCallDone == Returned /\ last.op \in StoreOps \cup {"mkdir", "writeFile"}
WriteFileWithoutParent ==
  /\ Returned
  /\ last.op = "writeFile"
  /\ PopRest(normalizePathParts(last.pre.cwdParts, last.args[1])) \notin FolderPathsOf(last.pre.root)
C35_FailedStoreCallChangesNothing ==
  /\ StoreCallDone /\ ~last.ok => StoreUnchanged
  /\ WriteFileWithoutParent => ~last.ok /\ FolderPathsOf(root) = FolderPathsOf(last.pre.root)
\* writeFile a/b where no folder a exists, next to a file that stays
C35_Witness ==
  /\ WriteFileWithoutParent
  /\ last.args[1] = pAB
  /\ ~last.ok
  /\ FilesOf(last.pre.root) # {}
  /\ StoreUnchanged
\* every operation of the claim is seen to fail
C35_EachOperationFails(op) == Returned /\ last.op = op /\ ~last.ok

(***************************************************************************)
(* C39: a folder created by mkdir can be entered by its name.  Right after *)
(* mkdir(name) has succeeded, changeDirectory(name) succeeds and makes the *)
(* cwd the previous cwd extended by name, and rmdir(name) called from the  *)
(* previous cwd removes the folder again.                                  *)
(***************************************************************************)
MkdirSucceeded == Returned /\ last.op = "mkdir" /\ last.ok
EntersCreated(name) ==
  \E r \in {changeDirectory(Store, name)} :
    r.err = "" /\ r.s.cwdParts = Append(last.pre.cwdParts, name)
RemovesCreated(name) ==
  \E r \in {rmdir(Store, name)} : r.err = "" /\ r.s.root = last.pre.root
C39_CreatedFolderCanBeEntered ==
  MkdirSucceeded => EntersCreated(last.args[1]) /\ RemovesCreated(last.args[1])

(***************************************************************************)
(* C36: a stored completion session has at least two candidates, an index  *)
(* with 0 <= index < number of candidates, and its remembered last input   *)
(* is the input built from the candidate at that index: the name and a     *)
(* space for commands; the text before the word, the re-quoted completed   *)
(* path and the text after the word for paths.  This holds after any       *)
(* sequence of Tab, Shift+Tab and other keys.                              *)
(***************************************************************************)
StoredSession == uiState.completionSession
CandidateAtIndex == StoredSession.items[StoredSession.index + 1]
InputOfCandidate ==
  IF StoredSession.type = "command"
  THEN CandidateAtIndex \o <<" ">>
  ELSE StoredSession.beforeWord
       \o quoteArgIfNeeded(
            StoredSession.dirPart \o CandidateAtIndex.name
              \o (IF CandidateAtIndex.isFolder THEN Slash ELSE Empty),
            IF StoredSession.quoteChar = "" THEN "\"" ELSE StoredSession.quoteChar)
       \o StoredSession.afterWord
C36_StoredSessionIsConsistent ==
  StoredSession.active =>
    /\ StoredSession.type \in {"command", "path"}
    /\ Len(StoredSession.items) >= 2
    /\ StoredSession.index \in 0..(Len(StoredSession.items) - 1)
    /\ StoredSession.lastInput = InputOfCandidate
\* a path session that Tab has moved on from its first candidate
C36_Witness ==
  /\ LastKey("Tab")
  /\ StoredSession.active
  /\ StoredSession.type = "path"
  /\ StoredSession.index > 0
  /\ StoredSession.beforeWord # Empty
  /\ terminal.value = StoredSession.lastInput
\* a command session that Shift+Tab has wrapped round to its last candidate
C36_WitnessCommand ==
  /\ LastKey("Tab")
  /\ last.args[1].shiftKey
  /\ StoredSession.active
  /\ StoredSession.type = "command"
  /\ StoredSession.index = Len(StoredSession.items) - 1

(***************************************************************************)
(* C37: path completion replaces only the current word.  After a           *)
(* single-match commit or a proposal, tokenizing the new input gives the   *)
(* tokens the input had for the words before the current word, followed by *)
(* exactly one token whose value is the directory part plus the name of a  *)
(* matching entry, plus '/' for a folder; inputs that end in whitespace    *)
(* inside an open quote or after a backslash are included.                 *)
(***************************************************************************)
TokensOf(value) == tokenizeCommandLine(value).tokens
\* the current word is the last tokenized span, or an empty span when the
\* input ends in whitespace
EndsInNewWord(value) == tokenizeCommandLine(value).endsWithSpace \/ TokensOf(value) = <<>>
PrecedingTokens(value) ==
  IF EndsInNewWord(value) THEN TokensOf(value)
  ELSE SubSeq(TokensOf(value), 1, Len(TokensOf(value)) - 1)
CurrentWord(value) ==
  IF EndsInNewWord(value) THEN Empty ELSE TokensOf(value)[Len(TokensOf(value))].value
DirPartOf(word) == SubSeq(word, 1, AfterLastSlash(word))
NamePartOf(word) == SliceFrom(word, AfterLastSlash(word))
\* the request is one for a path: an argument, or a first word that starts with ./
IsPathRequest(value) ==
  LET nWords == Len(PrecedingTokens(value)) + 1 IN
  IF nWords = 1 THEN StartsWith(CurrentWord(value), DotSlash)
  ELSE ~(nWords = 2 /\ TokensOf(value)[1].value = wHello)
\* the words a completion of the current word may give
CompletionsOf(value) ==
  LET dir == normalizePathParts(cwdParts, DirPartOf(CurrentWord(value)))
      isEntry(p) == Len(p) = Len(dir) + 1 /\ IsPrefix(dir, p)
                     /\ StartsWith(p[Len(p)], NamePartOf(CurrentWord(value)))
  IN {DirPartOf(CurrentWord(value)) \o p[Len(p)] \o Slash :
        p \in {q \in FolderPathsOf(root) : isEntry(q)}}
     \cup {DirPartOf(CurrentWord(value)) \o p[Len(p)] :
        p \in {q \in FilePathsOf(root) : isEntry(q)}}
\* Tab on an input that no stored session proposed, with entries that match
PathCompletionStep ==
  /\ KeyStep("Tab")
  /\ ~(uiState.completionSession.active /\ terminal.value = uiState.completionSession.lastInput)
  /\ IsPathRequest(terminal.value)
  /\ CompletionsOf(terminal.value) # {}
OnlyCurrentWordReplaced(before, after) ==
  /\ Len(TokensOf(after)) = Len(PrecedingTokens(before)) + 1
  /\ SubSeq(TokensOf(after), 1, Len(PrecedingTokens(before))) = PrecedingTokens(before)
  /\ TokensOf(after)[Len(TokensOf(after))].value \in CompletionsOf(before)
C37_PathCompletionReplacesCurrentWord ==
  [][PathCompletionStep => OnlyCurrentWordReplaced(terminal.value, terminal'.value)]_vars

(***************************************************************************)
(* C38: every command name that command-position completion commits or    *)
(* proposes is dispatchable: the proposed line, submitted as it is, is     *)
(* handled by a built-in or by a script resolved on PATH and is not        *)
(* reported as command-not-found, also after a script was removed from a   *)
(* PATH directory.                                                         *)
(***************************************************************************)
\* the request is one for a command: the input is one word, or none, and the
\* word does not start with ./
IsCommandRequest(value) ==
  PrecedingTokens(value) = <<>> /\ ~StartsWith(CurrentWord(value), DotSlash)
CyclesSession ==
  uiState.completionSession.active /\ terminal.value = uiState.completionSession.lastInput
\* the names the completion of a command word chooses from
CommandCandidates ==
  {commands[k] : k \in 1..Len(commands)} \cup commandsFromPath
    \cup getPathScriptCommands(Store, env)
\* the names the step has put into the input: the proposal of a command
\* session, or the one match that was committed
OfferedNames ==
  IF /\ uiState'.completionSession.active
     /\ uiState'.completionSession.type = "command"
     /\ terminal'.value = uiState'.completionSession.lastInput
  THEN {uiState'.completionSession.items[uiState'.completionSession.index + 1]}
  ELSE IF ~CyclesSession /\ IsCommandRequest(terminal.value)
  THEN {name \in CommandCandidates :
          /\ StartsWith(name, CurrentWord(terminal.value))
          /\ terminal'.value = name \o Sp}
  ELSE {}
\* the line is taken by a registered command module or by a script on PATH
Dispatchable(name) ==
  \/ name \in {commands[k] : k \in 1..Len(commands)}
  \/ \E x \in {ReadLine(env, name \o Sp).x} : ResolveTyped(Store, env, x).handled
C38_OfferedCommandsAreDispatchable ==
  [][KeyStep("Tab") => \A name \in OfferedNames : Dispatchable(name)]_vars

====
